---- MODULE Spec2Model ----
(***************************************************************************)
(* The room server of songshomie (src/unnamed/part_005): the in-memory     *)
(* room registry and the socket.io event handlers that mutate it; and the  *)
(* client of one connection, `client` (see the section on the client).     *)
(*                                                                         *)
(* Conventions                                                             *)
(*  - A JavaScript Map is a sequence in insertion order: `rooms` is the    *)
(*    sequence of room records, `participants` the sequence of slots, each *)
(*    slot carrying its key (the socket id) in the field `sock`.           *)
(*  - Date.now() is the variable `now`, in milliseconds.  Positions        *)
(*    (currentTime, playbackStartTime) are held in milliseconds, i.e. the  *)
(*    source's seconds times MsPerSec, so that the source's `/ 1000` is    *)
(*    exact on integers.                                                   *)
(*  - null is Null; a missing payload has present = FALSE.                 *)
(*  - `sent` is the sequence of messages the last handler emitted, one     *)
(*    entry per receiving connection; `ev` names the last handler, the     *)
(*    branch of its code that ran and the server time it ran at.  Its      *)
(*    field `after` is "" unless the handler before it was a pause that    *)
(*    passed the permission check: then it names that pause's branch and   *)
(*    tells whether the clock has moved since.                             *)
(*  - `intervals` is the set of setInterval timers of the server that are  *)
(*    active, each with its id, the room id its callback closes over and   *)
(*    the time it is due; only the WebSocketManager starts any.            *)
(***************************************************************************)
EXTENDS Integers, Sequences, FiniteSets, TLC

VARIABLES rooms, groups, connected, now, sent, ev, client, intervals

vars == <<rooms, groups, connected, now, sent, ev, client, intervals>>

----------------------------------------------------------------------------
(* Bounds and input sets *)

MaxTicks == 2
MaxPlaylist == 2
MaxMessages == 2

StartTime == 1000
TickMs == 1000
MsPerSec == 1000
Null == -1

SocketOrder == <<"s1", "s2", "s3">>
Sockets == {SocketOrder[i] : i \in DOMAIN SocketOrder}
NoSock == "none"
RoomIds == {"X", "Y"}
UserIds == {"u1", "u2"}
NameOf(id) == IF id = "u1" THEN "Ann" ELSE "Bob"
NoSong == "none"
Songs == {"T1", "T2"}
Texts == {"hi"}
\* the connection whose page is modelled as `client`
ClientSock == "s2"

\* user objects a client may put in join-room: well-formed ones, one without
\* a name, and a missing user.
Users ==
    {[present |-> TRUE, id |-> i, name |-> NameOf(i), isAdmin |-> a] :
        i \in UserIds, a \in BOOLEAN}
NamelessUser == [present |-> TRUE, id |-> "u1", name |-> "", isAdmin |-> FALSE]
MissingUser == [present |-> FALSE, id |-> "", name |-> "", isAdmin |-> FALSE]

----------------------------------------------------------------------------
(* Map helpers *)

HasRoom(rs, r) == \E i \in DOMAIN rs : rs[i].id = r
GetRoom(rs, r) == rs[CHOOSE i \in DOMAIN rs : rs[i].id = r]
PutRoom(rs, room) ==
    IF HasRoom(rs, room.id)
    THEN [i \in DOMAIN rs |-> IF rs[i].id = room.id THEN room ELSE rs[i]]
    ELSE Append(rs, room)
\* variant of DeleteRoom: the entry stays
DeleteRoom_Keeps(rs, r) == rs

DeleteRoom(rs, r) == SelectSeq(rs, LAMBDA x : x.id # r)

HasSlot(ps, s) == \E i \in DOMAIN ps : ps[i].sock = s
GetSlot(ps, s) == ps[CHOOSE i \in DOMAIN ps : ps[i].sock = s]
SetSlot(ps, p) ==
    IF HasSlot(ps, p.sock)
    THEN [i \in DOMAIN ps |-> IF ps[i].sock = p.sock THEN p ELSE ps[i]]
    ELSE Append(ps, p)
DeleteSlot(ps, s) == SelectSeq(ps, LAMBDA p : p.sock # s)

\* the key of the first slot whose participant id is uid, NoSock if none
FindSockById(ps, uid) ==
    IF \E i \in DOMAIN ps : ps[i].id = uid
    THEN ps[CHOOSE i \in DOMAIN ps :
                /\ ps[i].id = uid
                /\ \A j \in DOMAIN ps : ps[j].id = uid => i <= j].sock
    ELSE NoSock

\* Array.from(room.participants.values())
Roster(ps) ==
    [i \in DOMAIN ps |-> [id |-> ps[i].id, name |-> ps[i].name,
                          isAdmin |-> ps[i].isAdmin]]

----------------------------------------------------------------------------
(* Emission *)

Msg(to, type, data) == [to |-> to, type |-> type, data |-> data]

\* variant of Broadcast: the last connection of the group gets nothing
Broadcast_SkipLast(g, type, data) ==
    LET order == SelectSeq(SocketOrder, LAMBDA s : s \in g)
    IN [i \in 1..(Len(order) - 1) |-> Msg(order[i], type, data)]

\* one message per connection of the set g, in a fixed order
Broadcast(g, type, data) ==
    LET order == SelectSeq(SocketOrder, LAMBDA s : s \in g)
    IN [i \in DOMAIN order |-> Msg(order[i], type, data)]

\* variant of Others: the sender is not left out (io.to)
Others_All(g, s) == g

\* socket.to(room): the connections of the group other than the sender
Others(g, s) == g \ {s}

AfterPause ==
    IF ev.name = "playback-control" /\ ev.action = "pause"
       /\ ev.branch \in {"froze", "applied"}
    THEN <<ev.branch, IF ev.t = now THEN "same-time" ELSE "later">>
    ELSE <<>>

Event(name, s, r, action, branch) ==
    [name |-> name, sock |-> s, room |-> r, action |-> action,
     branch |-> branch, t |-> now, after |-> AfterPause]

NoEvent == [name |-> "none", sock |-> NoSock, room |-> "", action |-> "",
            branch |-> "none", t |-> 0, after |-> <<>>]

----------------------------------------------------------------------------
(* join-room *)

NewRoom(roomId, userName, t) ==
    [id |-> roomId,
     creator |-> userName,
     participants |-> <<>>,
     messages |-> <<>>,
     playbackState |->
        [currentSong |-> NoSong, isPlaying |-> FALSE, currentTime |-> 0,
         volume |-> 1, playlist |-> <<>>, currentIndex |-> -1,
         serverStartTime |-> Null, playbackStartTime |-> Null,
         lastSyncTime |-> t],
     settings |->
        [allowGuestControl |-> FALSE, maxParticipants |-> 50,
         isPublic |-> TRUE, requireApproval |-> FALSE]]

\* variant of RoomStateData: the snapshot carries an empty chat log
RoomStateData_NoLog(room, t) ==
    [room |-> [id |-> room.id, creator |-> room.creator,
               settings |-> room.settings],
     participants |-> Roster(room.participants),
     messages |-> <<>>,
     playbackState |-> room.playbackState,
     serverTime |-> t]

RoomStateData(room, t) ==
    [room |-> [id |-> room.id, creator |-> room.creator,
               settings |-> room.settings],
     participants |-> Roster(room.participants),
     messages |-> room.messages,
     playbackState |-> room.playbackState,
     serverTime |-> t]

\* variant of IsFull: one participant more than maxParticipants is let in
IsFull_OneMore(room) ==
    Len(room.participants) > room.settings.maxParticipants

\* room.participants.size >= room.settings.maxParticipants
IsFull(room) ==
    Len(room.participants) >= room.settings.maxParticipants

JoinRoom(s, roomId, user) ==
    /\ s \in connected
    /\ UNCHANGED <<client, intervals>>
    /\ UNCHANGED <<connected, now>>
    /\ IF ~user.present
       THEN \* user.name is read for the log line before the validation
            /\ ev' = Event("join-room", s, roomId, "", "threw")
            /\ sent' = <<>>
            /\ UNCHANGED <<rooms, groups>>
       ELSE IF roomId = "" \/ user.name = ""
       THEN /\ ev' = Event("join-room", s, roomId, "", "invalid")
            /\ sent' = <<Msg(s, "room-error", [message |-> "Invalid room data"])>>
            /\ UNCHANGED <<rooms, groups>>
       ELSE
         LET rs1 == IF HasRoom(rooms, roomId) THEN rooms
                    ELSE Append(rooms, NewRoom(roomId, user.name, now))
             room == GetRoom(rs1, roomId)
         IN
         IF IsFull(room)
         THEN /\ ev' = Event("join-room", s, roomId, "", "full")
              /\ sent' = <<Msg(s, "room-error", [message |-> "Room is full"])>>
              /\ rooms' = rs1
              /\ UNCHANGED groups
         ELSE
           LET existing == FindSockById(room.participants, user.id)
               replaced == existing # NoSock /\ existing # s
               ps1 == IF replaced THEN DeleteSlot(room.participants, existing)
                      ELSE room.participants
               pdata == [sock |-> s, id |-> user.id, name |-> user.name,
                         isAdmin |-> IF Len(ps1) = 0 THEN TRUE ELSE user.isAdmin]
               creator1 == IF Len(ps1) = 0 THEN user.name ELSE room.creator
               ps2 == SetSlot(ps1, pdata)
               room2 == [room EXCEPT !.participants = ps2, !.creator = creator1]
               g2 == groups[roomId] \cup {s}
           IN
           /\ ev' = Event("join-room", s, roomId, "",
                          IF ~HasRoom(rooms, roomId) THEN "created"
                          ELSE IF replaced THEN "replaced" ELSE "joined")
           /\ rooms' = PutRoom(rs1, room2)
           /\ groups' = [groups EXCEPT ![roomId] = g2]
           /\ sent' =
                (IF Len(ps2) > 1
                 THEN Broadcast(Others(g2, s), "user-joined",
                                [user |-> user.name, participants |-> Roster(ps2)])
                 ELSE <<>>)
                \o <<Msg(s, "room-state", RoomStateData(room2, now))>>

----------------------------------------------------------------------------
(* disconnect *)

\* the first room of the registry, in iteration order, that holds a slot
\* keyed s; 0 if none
FirstRoomWith(rs, s) ==
    IF \E i \in DOMAIN rs : HasSlot(rs[i].participants, s)
    THEN CHOOSE i \in DOMAIN rs :
            /\ HasSlot(rs[i].participants, s)
            /\ \A j \in DOMAIN rs : HasSlot(rs[j].participants, s) => i <= j
    ELSE 0

Disconnect(s) ==
    /\ s \in connected
    /\ UNCHANGED <<client, intervals>>
    /\ connected' = connected \ {s}
    \* socket.io takes the connection out of every group before the
    \* disconnect event is delivered
    /\ groups' = [r \in RoomIds |-> groups[r] \ {s}]
    /\ UNCHANGED now
    /\ LET i == FirstRoomWith(rooms, s)
       IN IF i = 0
          THEN /\ ev' = Event("disconnect", s, "", "", "none")
               /\ sent' = <<>>
               /\ UNCHANGED rooms
          ELSE
            LET room == rooms[i]
                user == GetSlot(room.participants, s)
                ps1 == DeleteSlot(room.participants, s)
                room1 == [room EXCEPT !.participants = ps1]
            IN
            /\ ev' = Event("disconnect", s, room.id, "",
                           IF Len(ps1) = 0 THEN "deleted" ELSE "left")
            /\ sent' = Broadcast(Others(groups[room.id], s), "user-left",
                                 [user |-> user.name, participants |-> Roster(ps1)])
            /\ rooms' = IF Len(ps1) = 0 THEN DeleteRoom(rooms, room.id)
                        ELSE PutRoom(rooms, room1)

----------------------------------------------------------------------------
(* request-sync *)

Truthy(v) == v # Null /\ v # 0

\* the position request-sync reports at server time t (milliseconds)
CalculatedTime(ps, t) ==
    IF ps.isPlaying /\ Truthy(ps.serverStartTime) /\ ps.playbackStartTime # Null
    THEN ps.playbackStartTime + (t - ps.serverStartTime)
    ELSE ps.currentTime

RequestSync(s, roomId) ==
    /\ s \in connected
    /\ UNCHANGED <<client, intervals>>
    /\ UNCHANGED <<rooms, groups, connected, now>>
    /\ IF HasRoom(rooms, roomId)
       THEN LET ps == GetRoom(rooms, roomId).playbackState
            IN /\ ev' = Event("request-sync", s, roomId, "", "answered")
               /\ sent' = <<Msg(s, "sync-update",
                               [playbackState |->
                                   [ps EXCEPT !.currentTime = CalculatedTime(ps, now)],
                                serverTime |-> now])>>
       ELSE /\ ev' = Event("request-sync", s, roomId, "", "ignored")
            /\ sent' = <<>>

----------------------------------------------------------------------------
(* send-message, add-song *)

IsMember(rs, roomId, s) ==
    HasRoom(rs, roomId) /\ HasSlot(GetRoom(rs, roomId).participants, s)

SendMessage(s, roomId, text, userName) ==
    /\ s \in connected
    /\ UNCHANGED <<client, intervals>>
    /\ UNCHANGED <<groups, connected, now>>
    /\ IF IsMember(rooms, roomId, s)
       THEN LET room == GetRoom(rooms, roomId)
                chatMessage == [user |-> userName, message |-> text,
                                roomId |-> roomId]
            IN /\ Len(room.messages) < MaxMessages
               /\ ev' = Event("send-message", s, roomId, "", "applied")
               /\ rooms' = PutRoom(rooms,
                              [room EXCEPT !.messages = Append(@, chatMessage)])
               /\ sent' = Broadcast(groups[roomId], "new-message", chatMessage)
       ELSE /\ ev' = Event("send-message", s, roomId, "", "ignored")
            /\ sent' = <<>>
            /\ UNCHANGED rooms

\* variant of WithSong: the track is put in front of the playlist
WithSong_InFront(ps, song) ==
    LET list1 == <<song>> \o ps.playlist
    IN IF ps.currentSong = NoSong /\ Len(list1) = 1
       THEN [ps EXCEPT !.playlist = list1, !.currentSong = song,
                       !.currentIndex = 0]
       ELSE [ps EXCEPT !.playlist = list1]

\* the playback state after add-song pushed the track
WithSong(ps, song) ==
    LET list1 == Append(ps.playlist, song)
    IN IF ps.currentSong = NoSong /\ Len(list1) = 1
       THEN [ps EXCEPT !.playlist = list1, !.currentSong = song,
                       !.currentIndex = 0]
       ELSE [ps EXCEPT !.playlist = list1]

AddSong(s, roomId, song) ==
    /\ s \in connected
    /\ UNCHANGED <<client, intervals>>
    /\ UNCHANGED <<groups, connected, now>>
    /\ IF IsMember(rooms, roomId, s)
       THEN LET room == GetRoom(rooms, roomId)
                ps == room.playbackState
                ps1 == WithSong(ps, song)
            IN /\ Len(ps.playlist) < MaxPlaylist
               /\ ev' = Event("add-song", s, roomId, "", "applied")
               /\ rooms' = PutRoom(rooms, [room EXCEPT !.playbackState = ps1])
               /\ sent' = Broadcast(groups[roomId], "playlist-updated", ps1)
       ELSE /\ ev' = Event("add-song", s, roomId, "", "ignored")
            /\ sent' = <<>>
            /\ UNCHANGED rooms

----------------------------------------------------------------------------
(* playback-control *)

\* payloads: none, {currentTime: c} (c in milliseconds), {volume: v}
NoPayload == [present |-> FALSE, currentTime |-> Null, volume |-> Null]
TimePayload(c) == [present |-> TRUE, currentTime |-> c, volume |-> Null]
VolumePayload(v) == [present |-> TRUE, currentTime |-> Null, volume |-> v]

Actions == {"play", "pause", "seek", "next", "previous", "volume"}

\* seek and volume read a field of the payload unconditionally
Throws(action, payload) == action \in {"seek", "volume"} /\ ~payload.present

\* variant of PlayStartTime: a play without currentTime restarts at 0
PlayStartTime_Zero(ps, payload) ==
    IF payload.present /\ Truthy(payload.currentTime)
    THEN payload.currentTime ELSE 0

\* payload?.currentTime || room.playbackState.currentTime
PlayStartTime(ps, payload) ==
    IF payload.present /\ Truthy(payload.currentTime)
    THEN payload.currentTime ELSE ps.currentTime

Play(ps, payload, t) ==
    [ps EXCEPT !.isPlaying = TRUE,
               !.serverStartTime = t,
               !.playbackStartTime = PlayStartTime(ps, payload),
               !.lastSyncTime = t]

\* variant of Pause: the anchor is kept
Pause_KeepsAnchor(ps, t) ==
    [ps EXCEPT !.isPlaying = FALSE,
               !.currentTime =
                   IF Truthy(ps.serverStartTime) /\ ps.playbackStartTime # Null
                   THEN ps.playbackStartTime + (t - ps.serverStartTime)
                   ELSE @,
               !.lastSyncTime = t]

\* variant of Pause: without an anchor, the time since the last change is
\* added to the stored position
Pause_Unguarded(ps, t) ==
    [ps EXCEPT !.isPlaying = FALSE,
               !.currentTime =
                   IF Truthy(ps.serverStartTime) /\ ps.playbackStartTime # Null
                   THEN ps.playbackStartTime + (t - ps.serverStartTime)
                   ELSE @ + (t - ps.lastSyncTime),
               !.serverStartTime = Null,
               !.playbackStartTime = Null,
               !.lastSyncTime = t]

Pause(ps, t) ==
    [ps EXCEPT !.isPlaying = FALSE,
               !.currentTime =
                   IF Truthy(ps.serverStartTime) /\ ps.playbackStartTime # Null
                   THEN ps.playbackStartTime + (t - ps.serverStartTime)
                   ELSE @,
               !.serverStartTime = Null,
               !.playbackStartTime = Null,
               !.lastSyncTime = t]

Seek(ps, payload, t) ==
    [ps EXCEPT !.currentTime = payload.currentTime,
               !.serverStartTime = IF ps.isPlaying THEN t ELSE @,
               !.playbackStartTime = IF ps.isPlaying THEN payload.currentTime ELSE @,
               !.lastSyncTime = t]

\* variant of MoveTo: currentSong is left as it was
MoveTo_KeepsSong(ps, idx, t) ==
    [ps EXCEPT !.currentIndex = idx,
               !.currentTime = 0,
               !.serverStartTime = IF ps.isPlaying THEN t ELSE @,
               !.playbackStartTime = IF ps.isPlaying THEN 0 ELSE @,
               !.lastSyncTime = t]

\* next and previous: move to 0-based index idx (playlist[idx] is the
\* sequence's element idx + 1)
MoveTo(ps, idx, t) ==
    [ps EXCEPT !.currentIndex = idx,
               !.currentSong = ps.playlist[idx + 1],
               !.currentTime = 0,
               !.serverStartTime = IF ps.isPlaying THEN t ELSE @,
               !.playbackStartTime = IF ps.isPlaying THEN 0 ELSE @,
               !.lastSyncTime = t]

NextSong(ps, t) ==
    IF ps.currentIndex < Len(ps.playlist) - 1
    THEN MoveTo(ps, ps.currentIndex + 1, t) ELSE ps

PreviousSong(ps, t) ==
    IF ps.currentIndex > 0
    THEN MoveTo(ps, ps.currentIndex - 1, t) ELSE ps

SetVolume(ps, payload, t) ==
    [ps EXCEPT !.volume = payload.volume, !.lastSyncTime = t]

\* the switch of the playback-control handler
ApplyControl(ps, action, payload, t) ==
    CASE action = "play" -> Play(ps, payload, t)
      [] action = "pause" -> Pause(ps, t)
      [] action = "seek" -> Seek(ps, payload, t)
      [] action = "next" -> NextSong(ps, t)
      [] action = "previous" -> PreviousSong(ps, t)
      [] action = "volume" -> SetVolume(ps, payload, t)

\* the branch of the switch that runs: play takes its position from the
\* payload or from the stored one, pause computes the frozen position only
\* from a set anchor, next and previous skip their body at a boundary
ControlBranch(ps, action, payload) ==
    CASE action = "play" /\ payload.present /\ Truthy(payload.currentTime)
            -> "from-payload"
      [] action = "play" -> "from-stored"
      [] action = "pause" /\ Truthy(ps.serverStartTime)
            /\ ps.playbackStartTime # Null -> "froze"
      [] action = "next" /\ ~(ps.currentIndex < Len(ps.playlist) - 1) -> "boundary"
      [] action = "previous" /\ ~(ps.currentIndex > 0) -> "boundary"
      [] OTHER -> "applied"

\* variant of MayControl: the room's allowGuestControl is not consulted
MayControl_AdminOnly(user, settings) == user.isAdmin

\* the permission check of playback-control
MayControl(user, settings) == user.isAdmin \/ settings.allowGuestControl

\* the client after the server took the playback-control request of
\* connection s: if it is the one at the head of the client's outbox, it is
\* no longer in flight
Served(c, s, action, payload) ==
    IF c.mounted /\ s = ClientSock /\ c.outbox # <<>>
       /\ Head(c.outbox) = [action |-> action, payload |-> payload]
    THEN [c EXCEPT !.outbox = Tail(@)]
    ELSE c

PlaybackControl(s, roomId, action, payload) ==
    /\ s \in connected
    /\ client' = Served(client, s, action, payload)
    /\ UNCHANGED intervals
    /\ UNCHANGED <<groups, connected, now>>
    /\ IF ~IsMember(rooms, roomId, s)
       THEN /\ ev' = Event("playback-control", s, roomId, action, "ignored")
            /\ sent' = <<>>
            /\ UNCHANGED rooms
       ELSE
         LET room == GetRoom(rooms, roomId)
             user == GetSlot(room.participants, s)
             ps == room.playbackState
         IN
         IF ~MayControl(user, room.settings)
         THEN /\ ev' = Event("playback-control", s, roomId, action, "denied")
              /\ sent' = <<Msg(s, "permission-denied",
                              [message |-> "Only admins can control playback"])>>
              /\ UNCHANGED rooms
         ELSE IF Throws(action, payload)
         THEN /\ ev' = Event("playback-control", s, roomId, action, "threw")
              /\ sent' = <<>>
              /\ UNCHANGED rooms
         ELSE
           LET ps1 == ApplyControl(ps, action, payload, now)
           IN /\ ev' = Event("playback-control", s, roomId, action,
                             ControlBranch(ps, action, payload))
              /\ rooms' = PutRoom(rooms, [room EXCEPT !.playbackState = ps1])
              /\ sent' = Broadcast(groups[roomId], "playback-state-changed",
                                   [playbackState |-> ps1, serverTime |-> now])

----------------------------------------------------------------------------
(* user-action, close-room *)

\* update-settings payloads: none, or an object with some of the settings
NoSettings == [present |-> FALSE, fields |-> <<>>]
SettingsPayload(f) == [present |-> TRUE, fields |-> f]

\* variant of MergeSettings: the fields the payload leaves out go back to
\* the values of a new room
MergeSettings_Replace(settings, f) ==
    LET fresh == NewRoom("", "", 0).settings
        pick(k) == IF k \in DOMAIN f THEN f[k] ELSE fresh[k]
    IN [allowGuestControl |-> pick("allowGuestControl"),
        maxParticipants |-> pick("maxParticipants"),
        isPublic |-> pick("isPublic"),
        requireApproval |-> pick("requireApproval")]

\* { ...room.settings, ...payload }
MergeSettings(settings, f) ==
    LET pick(k) == IF k \in DOMAIN f THEN f[k] ELSE settings[k]
    IN [allowGuestControl |-> pick("allowGuestControl"),
        maxParticipants |-> pick("maxParticipants"),
        isPublic |-> pick("isPublic"),
        requireApproval |-> pick("requireApproval")]

\* variant of IsAdminSlot: every participant passes
IsAdminSlot_Any(user) == TRUE

\* the check that opens user-action and close-room
IsAdminSlot(user) == user.isAdmin

\* variant of TransferSlots: the caller's flag is not cleared
TransferSlots_KeepsCaller(ps, s, target) ==
    [i \in DOMAIN ps |->
        IF ps[i].sock = target THEN [ps[i] EXCEPT !.isAdmin = TRUE] ELSE ps[i]]

\* the roster after transfer-admin from the slot keyed s to the slot keyed target
TransferSlots(ps, s, target) ==
    LET ps1 == [i \in DOMAIN ps |->
                   IF ps[i].sock = s THEN [ps[i] EXCEPT !.isAdmin = FALSE]
                   ELSE ps[i]]
    IN [i \in DOMAIN ps1 |->
           IF ps1[i].sock = target THEN [ps1[i] EXCEPT !.isAdmin = TRUE]
           ELSE ps1[i]]

UserAction(s, roomId, action, targetUserId, payload) ==
    /\ s \in connected
    /\ UNCHANGED <<client, intervals>>
    /\ UNCHANGED <<connected, now>>
    /\ IF ~IsMember(rooms, roomId, s)
       THEN /\ ev' = Event("user-action", s, roomId, action, "ignored")
            /\ sent' = <<>>
            /\ UNCHANGED <<rooms, groups>>
       ELSE
         LET room == GetRoom(rooms, roomId)
             adminUser == GetSlot(room.participants, s)
             targetSocket == FindSockById(room.participants, targetUserId)
         IN
         IF ~IsAdminSlot(adminUser)
         THEN /\ ev' = Event("user-action", s, roomId, action, "denied")
              /\ sent' = <<Msg(s, "permission-denied",
                              [message |-> "Only admins can perform this action"])>>
              /\ UNCHANGED <<rooms, groups>>
         ELSE IF action = "kick-user" /\ targetSocket # NoSock
         THEN LET targetUser == GetSlot(room.participants, targetSocket)
                  ps1 == DeleteSlot(room.participants, targetSocket)
                  g1 == groups[roomId] \ {targetSocket}
              IN /\ ev' = Event("user-action", s, roomId, action, "applied")
                 /\ rooms' = PutRoom(rooms, [room EXCEPT !.participants = ps1])
                 /\ groups' = [groups EXCEPT ![roomId] = g1]
                 /\ sent' =
                      Broadcast({targetSocket} \cap connected, "kicked-from-room",
                                [message |-> adminUser.name])
                      \o Broadcast(g1, "user-left",
                                   [user |-> targetUser.name,
                                    participants |-> Roster(ps1)])
         ELSE IF action = "transfer-admin" /\ targetSocket # NoSock
         THEN LET targetUser == GetSlot(room.participants, targetSocket)
                  ps1 == TransferSlots(room.participants, s, targetSocket)
              IN /\ ev' = Event("user-action", s, roomId, action, "applied")
                 /\ rooms' = PutRoom(rooms, [room EXCEPT !.participants = ps1,
                                                         !.creator = targetUser.name])
                 /\ UNCHANGED groups
                 /\ sent' = Broadcast(groups[roomId], "admin-transferred",
                                      [newAdmin |-> targetUser.name,
                                       participants |-> Roster(ps1)])
         ELSE IF action = "update-settings" /\ payload.present
         THEN LET settings1 == MergeSettings(room.settings, payload.fields)
              IN /\ ev' = Event("user-action", s, roomId, action, "applied")
                 /\ rooms' = PutRoom(rooms, [room EXCEPT !.settings = settings1])
                 /\ UNCHANGED groups
                 /\ sent' = Broadcast(groups[roomId], "room-settings-updated",
                                      settings1)
         ELSE /\ ev' = Event("user-action", s, roomId, action, "nothing")
              /\ sent' = <<>>
              /\ UNCHANGED <<rooms, groups>>

CloseRoom(s, roomId) ==
    /\ s \in connected
    /\ UNCHANGED <<client, intervals>>
    /\ UNCHANGED <<groups, connected, now>>
    /\ IF ~IsMember(rooms, roomId, s)
       THEN /\ ev' = Event("close-room", s, roomId, "", "ignored")
            /\ sent' = <<>>
            /\ UNCHANGED rooms
       ELSE
         LET room == GetRoom(rooms, roomId)
             user == GetSlot(room.participants, s)
         IN
         IF ~IsAdminSlot(user)
         THEN /\ ev' = Event("close-room", s, roomId, "", "denied")
              /\ sent' = <<Msg(s, "permission-denied",
                              [message |-> "Only admins can close the room"])>>
              /\ UNCHANGED rooms
         ELSE /\ ev' = Event("close-room", s, roomId, "", "applied")
              /\ sent' = Broadcast(groups[roomId], "room-closed",
                                   [message |-> user.name])
              /\ rooms' = DeleteRoom(rooms, roomId)

----------------------------------------------------------------------------
(* the server clock *)

Tick ==
    /\ now + TickMs <= StartTime + MaxTicks * TickMs
    /\ now' = now + TickMs
    /\ UNCHANGED <<rooms, groups, connected, sent, ev, client, intervals>>

----------------------------------------------------------------------------
(* The client of one connection: the useWebSocket hook                     *)
(* (src/hooks/use-websocket.ts) and the MusicPlayer component              *)
(* (src/unnamed/part_002) it feeds.                                        *)
(*                                                                         *)
(*  - The client's Date.now() is now + client.skew.                        *)
(*  - A pending setTimeout / setInterval is a record [kind, due] of the    *)
(*    set client.timers; due is on the scale of `now`.                     *)
(*  - A React state setter followed by the re-render and the effects the   *)
(*    re-render runs is one step.  `capturedPlayerState` is the value of   *)
(*    playerState inside the closure of the polling callback, i.e. its     *)
(*    value when the polling effect last ran; `readyAtRender` is the value *)
(*    of playerReadyRef.current the last render compared as a dependency.  *)
(*  - `seeks` counts the seekTo calls of the drift controller, `corrected` *)
(*    is the time (scale of `now`) of the last one issued by the polling   *)
(*    callback, `synced` the last value getSyncedCurrentTime returned,     *)
(*    `behind` how far behind the synced position the player reported to   *)
(*    be at the last polling tick, `asked` the time of the hook's last    *)
(*    request-sync, `outbox` the playback-control requests the page has   *)
(*    emitted and the server has not handled yet, `gen` the number of      *)
(*    players created so far (a timer                                      *)
(*    carries the number of the player it was started for), `manualAt`     *)
(*    the time of the last manual seek, `away` whether the page has        *)
(*    navigated away from the room.                                        *)
(*  - The YouTube player is the environment: `pending` is the sequence of  *)
(*    callbacks it still owes (READY after its creation, BUFFERING then    *)
(*    PLAYING after it is told to play or to seek, PAUSED after it is told *)
(*    to pause), `pendingSince` the time the first of them became due.     *)
(***************************************************************************)


PollDelayMs == 5000
PollMs == 2000
SettleMs == 3000
CooldownMs == 30000
MinCorrectionMs == 15000
HardSeekMs == 5000
InSyncMs == 2000
InSyncResetMs == 30000
StabiliseMs == 3000
BufferMs == 5000
ReadySettleMs == 3000
PlayMinMs == 5000
PlaySeekMs == 3000
PlaySettleMs == 2000
SyncRequestMs == 10000
ManualSettleMs == 2000
ErrorSkipMs == 2000

\* song.duration of the tracks, in milliseconds
TrackMs == 55000
Duration(song) == IF song = NoSong THEN 0 ELSE TrackMs

Abs(x) == IF x < 0 THEN -x ELSE x

\* a timer started now, while player number gen is the current one
Timer(gen, kind, d) == [kind |-> kind, due |-> now + d, gen |-> gen]

\* the playback state the hook starts with
HookPlaybackState ==
    [currentSong |-> NoSong, isPlaying |-> FALSE, currentTime |-> 0,
     volume |-> 1, playlist |-> <<>>, currentIndex |-> -1,
     serverStartTime |-> Null, playbackStartTime |-> Null,
     lastSyncTime |-> 0]

NoClient ==
    [mounted |-> FALSE, skew |-> 0, seen |-> NoEvent,
     playbackState |-> HookPlaybackState,
     serverTimeOffset |-> 0,
     synced |-> Null,
     created |-> [playbackState |-> HookPlaybackState, serverTimeOffset |-> 0],
     player |-> FALSE, pending |-> <<>>, pendingSince |-> 0,
     playerReady |-> FALSE, readyAtRender |-> FALSE,
     playerState |-> "UNSTARTED", capturedPlayerState |-> "UNSTARTED",
     syncPaused |-> FALSE, syncStatus |-> "synced",
     lastSyncCorrection |-> 0, consecutiveSyncCorrections |-> 0,
     isSeeking |-> FALSE,
     timers |-> {}, asked |-> Null,
     roomInfo |-> [present |-> FALSE, allowGuestControl |-> FALSE],
     outbox |-> <<>>,
     gen |-> 0, manualAt |-> Null, away |-> FALSE, userIsAdmin |-> FALSE,
     seeks |-> 0, corrected |-> Null, capAt |-> Null, behind |-> Null,
     endedIndex |-> Null]

\* Date.now() in the browser
ClientNow(c) == now + c.skew

\* getSyncedCurrentTime of the hook, evaluated at client time t
\* (milliseconds, so the source's / 1000 is exact)
GetSyncedCurrentTime(ps, offset, t) ==
    IF ~ps.isPlaying \/ ~Truthy(ps.serverStartTime)
       \/ ps.playbackStartTime = Null
    THEN ps.currentTime
    ELSE ps.playbackStartTime + ((t + offset) - ps.serverStartTime)

SyncedNow(c) ==
    GetSyncedCurrentTime(c.playbackState, c.serverTimeOffset, ClientNow(c))

\* variant of ShouldCorrect: a difference of more than 6 s is needed
ShouldCorrect_Above6(timeDifference, timeSinceLastCorrection, count, state) ==
    /\ timeDifference > HardSeekMs + 1000
    /\ timeSinceLastCorrection > MinCorrectionMs
    /\ count < 1
    /\ state = "PLAYING"

\* the condition under which updateTime seeks
ShouldCorrect(timeDifference, timeSinceLastCorrection, count, state) ==
    /\ timeDifference > HardSeekMs
    /\ timeSinceLastCorrection > MinCorrectionMs
    /\ count < 1
    /\ state = "PLAYING"

\* the player is told to do something it answers with the callbacks evs
Owes(c, evs) ==
    IF c.pending = <<>> THEN [c EXCEPT !.pending = evs, !.pendingSince = now]
    ELSE c

\* the seek both correcting code paths perform at client time t; the delay
\* after which isSeeking is cleared is theirs
Corrected(c, t, settle) ==
    [Owes(c, <<"BUFFERING", "PLAYING">>)
       EXCEPT !.isSeeking = TRUE,
              !.lastSyncCorrection = t,
              !.consecutiveSyncCorrections = @ + 1,
              !.timers = @ \cup {Timer(c.gen, settle,
                                        IF settle = "settle" THEN SettleMs
                                        ELSE PlaySettleMs)},
              !.seeks = @ + 1,
              !.capAt = now]

\* the effect that creates the player for a new track: the bookkeeping is
\* reset; the closure of onReady keeps the playback state and the clock
\* offset of this render
InitEffect(c) ==
    [c EXCEPT !.player = TRUE, !.gen = @ + 1,
              !.pending = <<"READY">>, !.pendingSince = now,
              !.lastSyncCorrection = 0,
              !.consecutiveSyncCorrections = 0,
              !.isSeeking = FALSE,
              !.playerReady = FALSE,
              !.syncPaused = FALSE,
              !.created = [playbackState |-> c.playbackState,
                           serverTimeOffset |-> c.serverTimeOffset]]

\* the play/pause effect; reported is playerRef.current.getCurrentTime()
PlayEffect(c, reported) ==
    IF ~c.player \/ ~c.playerReady THEN c
    ELSE IF c.playbackState.isPlaying /\ c.playerState # "PLAYING"
    THEN IF /\ ~c.isSeeking /\ ~c.syncPaused
            /\ ClientNow(c) - c.lastSyncCorrection > PlayMinMs
            /\ Abs(SyncedNow(c) - reported) > PlaySeekMs
            /\ c.consecutiveSyncCorrections < 1
         THEN [Corrected(c, ClientNow(c), "play-settle")
                  EXCEPT !.synced = SyncedNow(c)]
         ELSE Owes(IF ~c.isSeeking /\ ~c.syncPaused
                      /\ ClientNow(c) - c.lastSyncCorrection > PlayMinMs
                   THEN [c EXCEPT !.synced = SyncedNow(c)] ELSE c,
                   <<"PLAYING">>)
    ELSE IF ~c.playbackState.isPlaying /\ c.playerState = "PLAYING"
    THEN Owes(c, <<"PAUSED">>)
    ELSE c

\* the effect that resumes sync after the cooldown
CooldownEffect(c) ==
    LET kept == {tm \in c.timers : tm.kind # "cooldown"}
    IN [c EXCEPT !.timers =
            IF c.syncPaused THEN kept \cup {Timer(c.gen, "cooldown", CooldownMs)}
            ELSE kept]

\* the polling effect: the pending start delay and the interval are
\* cleared, and polling starts over if the player is there and ready
PollingEffect(c) ==
    LET kept == {tm \in c.timers : tm.kind \notin {"poll-start", "poll"}}
    IN IF ~c.player \/ ~c.playerReady
       THEN [c EXCEPT !.timers = kept]
       ELSE [c EXCEPT !.timers = kept \cup {Timer(c.gen, "poll-start", PollDelayMs)},
                      !.capturedPlayerState = c.playerState]

\* a re-render of MusicPlayer alone, after one of its own state setters:
\* before is the client before the step, c the client after the setters
LocalRender(before, c) ==
    LET c1 == [c EXCEPT !.readyAtRender = c.playerReady]
        c2 == IF c.syncPaused # before.syncPaused THEN CooldownEffect(c1)
              ELSE c1
    IN IF c.syncPaused # before.syncPaused
          \/ c.playerReady # before.readyAtRender
       THEN PollingEffect(c2)
       ELSE c2

\* the hook's effect that asks for a sync every 10 s while playing
SyncRequestEffect(c) ==
    LET kept == {tm \in c.timers : tm.kind # "sync"}
    IN [c EXCEPT !.timers =
            IF c.playbackState.isPlaying
            THEN kept \cup {Timer(c.gen, "sync", SyncRequestMs)} ELSE kept]

\* a re-render of the page after the hook's state changed: every effect
\* that depends on getSyncedCurrentTime runs again
ParentRender(before, c, reported) ==
    LET ch == IF c.playbackState.isPlaying # before.playbackState.isPlaying
              THEN SyncRequestEffect(c) ELSE c
        c0 == [ch EXCEPT !.readyAtRender = c.playerReady]
        song == c.playbackState.currentSong
        c1 == IF song = before.playbackState.currentSong THEN c0
              ELSE IF song = NoSong
              THEN [c0 EXCEPT !.player = FALSE, !.pending = <<>>]
              ELSE InitEffect(c0)
        c2 == PlayEffect(c1, reported)
        c3 == IF c2.syncPaused # before.syncPaused
              THEN CooldownEffect([c2 EXCEPT !.readyAtRender = c2.playerReady])
              ELSE c2
    IN PollingEffect(c3)

\* updateTime, the polling callback
UpdateTime(c, reported) ==
    IF c.isSeeking \/ ~c.player THEN c
    ELSE LET t == ClientNow(c)
             syncedTime == SyncedNow(c)
             timeDifference == Abs(syncedTime - reported)
             timeSinceLastCorrection == t - c.lastSyncCorrection
         IN IF c.playbackState.isPlaying /\ ~c.syncPaused
            THEN IF ShouldCorrect(timeDifference, timeSinceLastCorrection,
                                  c.consecutiveSyncCorrections,
                                  c.capturedPlayerState)
                 THEN [Corrected(c, t, "settle")
                          EXCEPT !.synced = syncedTime,
                                 !.syncStatus = "out-of-sync",
                                 !.syncPaused = TRUE,
                                 !.corrected = now]
                 ELSE IF timeDifference > InSyncMs
                         /\ timeDifference <= HardSeekMs
                 THEN [c EXCEPT !.synced = syncedTime,
                                !.syncStatus = "syncing"]
                 ELSE IF timeDifference <= InSyncMs
                 THEN [c EXCEPT !.synced = syncedTime,
                                !.syncStatus = "synced",
                                !.consecutiveSyncCorrections =
                                    IF timeSinceLastCorrection > InSyncResetMs
                                    THEN 0 ELSE @]
                 ELSE [c EXCEPT !.synced = syncedTime]
            ELSE IF c.syncPaused THEN [c EXCEPT !.syncStatus = "syncing"]
            ELSE c

----------------------------------------------------------------------------
(* Client steps *)

\* how far behind the synced position the local player reports to be
Divergences == {0, 3000, 6000}
ClockSkews == {0, 500}

\* playerRef.current.getCurrentTime() || 0 of a player d behind
Reported(c, d) == IF SyncedNow(c) - d < 0 THEN 0 ELSE SyncedNow(c) - d

ServerIdle == UNCHANGED <<rooms, groups, connected, now, sent, ev, intervals>>

\* the page mounts the hook and the player component
Mount(k) ==
    /\ ~client.mounted
    /\ client' = [NoClient EXCEPT !.mounted = TRUE, !.skew = k,
                                  !.playbackState.lastSyncTime = now + k]
    /\ ServerIdle

\* the hook's state after its handler for message msg ran at client time t
Handled(c, msg, t) ==
    IF msg.type = "room-state"
    THEN [c EXCEPT !.playbackState = msg.data.playbackState,
                   !.roomInfo =
                       [present |-> TRUE,
                        allowGuestControl |->
                            msg.data.room.settings.allowGuestControl],
                   !.serverTimeOffset =
                       IF Truthy(msg.data.serverTime)
                       THEN msg.data.serverTime - t ELSE @]
    ELSE IF msg.type = "room-settings-updated"
    THEN [c EXCEPT !.roomInfo.allowGuestControl =
                       IF c.roomInfo.present THEN msg.data.allowGuestControl
                       ELSE @]
    ELSE IF msg.type = "playlist-updated"
    THEN [c EXCEPT !.playbackState = msg.data]
    ELSE IF msg.type \in {"playback-state-changed", "sync-update"}
    THEN [c EXCEPT !.playbackState = msg.data.playbackState,
                   !.serverTimeOffset = msg.data.serverTime - t]
    ELSE c

\* a message of the last handler reaches the client: the hook's handler,
\* then the re-render of the page and of the player
\* the messages whose handler sets window.location.href = "/"
Leaving == {"kicked-from-room", "room-closed", "room-error"}

\* the browser has left the room page: the page and its hook are gone
Away == [NoClient EXCEPT !.away = TRUE]

Receive(d) ==
    /\ client.mounted
    /\ client.seen # ev
    /\ \E k \in DOMAIN sent :
          /\ sent[k].to = ClientSock
          /\ LET c1 == [Handled(client, sent[k], ClientNow(client))
                           EXCEPT !.seen = ev]
             IN client' = IF sent[k].type \in Leaving
                          THEN [Away EXCEPT !.seen = ev]
                          ELSE ParentRender(client, c1, Reported(c1, d))
    /\ ServerIdle

\* onReady of the player
PlayerReady ==
    /\ client.player /\ client.pending # <<>>
    /\ Head(client.pending) = "READY"
    /\ LET syncTime == GetSyncedCurrentTime(client.created.playbackState,
                                            client.created.serverTimeOffset,
                                            ClientNow(client))
           c0 == [client EXCEPT
                     !.synced = syncTime,
                     !.pendingSince = now,
                     !.pending = IF client.created.playbackState.isPlaying
                                 THEN <<"BUFFERING", "PLAYING">> ELSE <<>>]
       IN client' =
            IF syncTime > 0
            THEN [c0 EXCEPT !.isSeeking = TRUE,
                            !.timers = @ \cup {Timer(client.gen, "ready-settle",
                                                     ReadySettleMs)}]
            ELSE [c0 EXCEPT !.playerReady = TRUE]
    /\ ServerIdle

PlayerStates == {"PLAYING", "BUFFERING", "PAUSED"}

\* handlePlayerStateChange
PlayerStateChange(newState) ==
    /\ client.player /\ client.pending # <<>>
    /\ Head(client.pending) = newState
    /\ LET c0 == [client EXCEPT !.playerState = newState,
                                !.pending = Tail(@), !.pendingSince = now]
           c1 == IF newState = "PLAYING"
                 THEN [c0 EXCEPT !.playerReady = TRUE,
                                 !.timers = @ \cup {Timer(client.gen, "stabilise",
                                                          StabiliseMs)}]
                 ELSE IF newState = "BUFFERING"
                 THEN [c0 EXCEPT !.isSeeking = TRUE,
                                 !.timers = @ \cup {Timer(client.gen, "buffer",
                                                          BufferMs)}]
                 ELSE [c0 EXCEPT !.isSeeking = FALSE]
       IN client' = IF newState # client.playerState
                    THEN LocalRender(client, c1) ELSE c1
    /\ ServerIdle

\* the page emits a playback-control request
Emitted(c, action, payload) ==
    [c EXCEPT !.outbox = Append(@, [action |-> action, payload |-> payload])]

\* handlePlayerStateChange for ENDED: the page asks for the next track
PlayerEnded ==
    /\ client.player /\ client.pending = <<>>
    /\ client.playerState = "PLAYING"
    /\ client' = LocalRender(client,
                     Emitted([client EXCEPT
                                 !.playerState = "ENDED",
                                 !.endedIndex =
                                     client.playbackState.currentIndex],
                             "next", NoPayload))
    /\ ServerIdle

\* onError of the player with a code for a track that cannot be played
\* (2, 100, 101, 150): the skip to the next track is scheduled
PlayerError ==
    /\ client.player /\ client.pending # <<>>
    /\ Head(client.pending) = "READY"
    /\ client' = LocalRender(client,
                     [client EXCEPT
                         !.pending = <<>>,
                         !.timers = @ \cup {Timer(client.gen, "error-skip",
                                                  ErrorSkipMs)}])
    /\ ServerIdle

\* canControlPlayback of the page, the isAdmin prop of the player: the
\* stored user is an admin or the room lets guests control
CanControl(c) == c.userIsAdmin \/ c.roomInfo.allowGuestControl

\* handleSeek: the user moves the slider to newTime
HandleSeek(newTime) ==
    /\ client.mounted /\ ~client.away
    /\ CanControl(client) /\ client.player /\ client.playerReady
    /\ LET c0 == IF client.playbackState.isPlaying
                 THEN Owes(client, <<"BUFFERING", "PLAYING">>) ELSE client
           c1 == [c0 EXCEPT !.isSeeking = TRUE,
                            !.timers = @ \cup {Timer(client.gen, "manual-settle",
                                                     ManualSettleMs)},
                            !.manualAt = now]
           c2 == Emitted(c1, "seek", TimePayload(newTime))
       IN client' = ParentRender(client, c2, newTime)
    /\ ServerIdle

\* a timer that is due fires
Fire(tm, d) ==
    /\ tm \in client.timers /\ tm.due <= now
    /\ LET c0 == [client EXCEPT !.timers = @ \ {tm}]
       IN client' =
            CASE tm.kind \in {"settle", "play-settle"} ->
                    [c0 EXCEPT !.isSeeking = FALSE]
              [] tm.kind = "ready-settle" ->
                    [c0 EXCEPT !.isSeeking = FALSE,
                               !.lastSyncCorrection = ClientNow(client),
                               !.playerReady = TRUE]
              [] tm.kind = "stabilise" ->
                    [c0 EXCEPT !.isSeeking = FALSE,
                               !.consecutiveSyncCorrections = 0,
                               !.lastSyncCorrection = ClientNow(client)]
              [] tm.kind = "buffer" ->
                    [c0 EXCEPT !.isSeeking = IF c0.playerReady THEN FALSE ELSE @]
              [] tm.kind = "manual-settle" ->
                    LocalRender(client,
                                [c0 EXCEPT !.isSeeking = FALSE,
                                           !.lastSyncCorrection = ClientNow(client),
                                           !.consecutiveSyncCorrections = 0,
                                           !.syncPaused = FALSE])
              [] tm.kind = "error-skip" ->
                    Emitted(c0, "next", NoPayload)
              [] tm.kind = "cooldown" ->
                    LocalRender(client,
                                [c0 EXCEPT !.syncPaused = FALSE,
                                           !.consecutiveSyncCorrections = 0])
              [] tm.kind = "sync" ->
                    [c0 EXCEPT !.timers = @ \cup {Timer(tm.gen, "sync", SyncRequestMs)},
                               !.asked = now]
              [] tm.kind = "poll-start" ->
                    [c0 EXCEPT !.timers = @ \cup {Timer(c0.gen, "poll", PollMs)}]
              [] OTHER ->
                    LET c1 == [c0 EXCEPT !.timers = @ \cup {Timer(tm.gen, "poll",
                                                                PollMs)}]
                    IN IF c1.isSeeking \/ ~c1.player THEN c1
                       ELSE LocalRender(client,
                                [UpdateTime(c1, Reported(c1, d))
                                    EXCEPT !.behind = d])
    /\ ServerIdle

\* one second passes; timers fire when they are due
MaxElapse == 60

Elapse ==
    /\ now + TickMs <= StartTime + MaxElapse * TickMs
    /\ \A tm \in client.timers : tm.due > now
    /\ now' = now + TickMs
    /\ UNCHANGED <<rooms, groups, connected, sent, ev, client, intervals>>

----------------------------------------------------------------------------

(* Membership and administration: two connections, two room ids.  Both   *)
(* connections use room X under every user object; room Y is joined by    *)
(* connection s1 only, which is what it takes for one connection to hold  *)
(* slots in two rooms.                                                     *)

RosterSockets == {"s1", "s2"}
SecondRoomUser == [present |-> TRUE, id |-> "u1", name |-> NameOf("u1"),
                   isAdmin |-> FALSE]
RosterJoins ==
    (RosterSockets \X {"X"} \X Users) \cup {<<"s1", "Y", SecondRoomUser>>}
AdminActions == {"kick-user", "transfer-admin", "update-settings"}
AdminSettings ==
    {NoSettings, SettingsPayload("allowGuestControl" :> TRUE)}

Init ==
    /\ rooms = <<>>
    /\ groups = [r \in RoomIds |-> {}]
    /\ connected = RosterSockets
    /\ now = StartTime
    /\ sent = <<>>
    /\ ev = NoEvent
    /\ client = NoClient
    /\ intervals = {}

Next ==
    \/ \E j \in RosterJoins : JoinRoom(j[1], j[2], j[3])
    \/ \E s \in RosterSockets : Disconnect(s)
    \/ \E s \in RosterSockets, r \in RoomIds, a \in AdminActions,
          target \in UserIds, p \in AdminSettings :
          UserAction(s, r, a, target, p)
    \/ \E s \in RosterSockets, r \in RoomIds : CloseRoom(s, r)

Spec == Init /\ [][Next]_vars

----------------------------------------------------------------------------
(* Playback: room X right after connection s1 created it (s1 is its       *)
(* admin), a second connection that may join as a guest, and the clock.   *)

PlaybackRoom == "X"
PlaybackSockets == {"s1", "s2"}
PlaybackUser(s) ==
    [present |-> TRUE, id |-> IF s = "s1" THEN "u1" ELSE "u2",
     name |-> NameOf(IF s = "s1" THEN "u1" ELSE "u2"), isAdmin |-> FALSE]
PlaybackSongs == {"T1"}
PayloadTimes == {0, 5 * MsPerSec}
Volumes == {0}
ControlInputs ==
    ({"play", "seek"} \X ({NoPayload} \cup {TimePayload(c) : c \in PayloadTimes}))
    \cup ({"pause", "next", "previous"} \X {NoPayload})
    \cup ({"volume"} \X ({NoPayload} \cup {VolumePayload(v) : v \in Volumes}))
GuestControlSettings ==
    {SettingsPayload("allowGuestControl" :> b) : b \in BOOLEAN}

CreatedRoom ==
    [NewRoom(PlaybackRoom, NameOf("u1"), StartTime) EXCEPT
        !.participants = <<[sock |-> "s1", id |-> "u1", name |-> NameOf("u1"),
                            isAdmin |-> TRUE]>>]

InitPlayback ==
    /\ rooms = <<CreatedRoom>>
    /\ groups = [r \in RoomIds |-> IF r = PlaybackRoom THEN {"s1"} ELSE {}]
    /\ connected = PlaybackSockets
    /\ now = StartTime
    /\ sent = <<Msg("s1", "room-state", RoomStateData(CreatedRoom, StartTime))>>
    /\ ev = [NoEvent EXCEPT !.name = "join-room", !.sock = "s1",
                            !.room = PlaybackRoom, !.branch = "created",
                            !.t = StartTime]
    /\ client = NoClient
    /\ intervals = {}

NextPlayback ==
    \/ JoinRoom("s2", PlaybackRoom, PlaybackUser("s2"))
    \/ \E song \in PlaybackSongs : AddSong("s1", PlaybackRoom, song)
    \/ \E s \in PlaybackSockets, c \in ControlInputs :
          PlaybackControl(s, PlaybackRoom, c[1], c[2])
    \/ \E p \in GuestControlSettings :
          UserAction("s1", PlaybackRoom, "update-settings", "", p)
    \/ Tick

SpecPlayback == InitPlayback /\ [][NextPlayback]_vars

----------------------------------------------------------------------------
(* Properties of membership and administration (checked under Spec) *)

AdminCount(roster) == Cardinality({i \in DOMAIN roster : roster[i].isAdmin})

RosterMessages == {"user-joined", "user-left", "admin-transferred", "room-state"}

\* C1: no room of the registry has more than one participant with
\* isAdmin = true, no roster carried by a user-joined, user-left,
\* admin-transferred or room-state message lists two admins, and the roster
\* of an admin-transferred message lists exactly one.
C1_AtMostOneAdmin ==
    /\ \A i \in DOMAIN rooms : AdminCount(rooms[i].participants) <= 1
    /\ \A k \in DOMAIN sent :
          sent[k].type \in RosterMessages
             => AdminCount(sent[k].data.participants) <= 1
    /\ \A k \in DOMAIN sent :
          sent[k].type = "admin-transferred"
             => AdminCount(sent[k].data.participants) = 1

\* C2: after every completed server event, each room of the registry that
\* has at least one participant has exactly one participant with
\* isAdmin = true.
C2_ExactlyOneAdmin ==
    \A i \in DOMAIN rooms :
        Len(rooms[i].participants) > 0
            => AdminCount(rooms[i].participants) = 1

\* C4: a valid join to an identifier absent from the registry creates the
\* room with exactly one participant, the joiner, who is admin and creator,
\* with empty messages, empty playlist, currentIndex = -1 and
\* isPlaying = false, and the joiner receives room-state for that id; when
\* that participant then disconnects, the room is deleted.
C4_Created ==
    (ev'.name = "join-room" /\ ev'.branch = "created"
        /\ ~HasRoom(rooms, ev'.room))
    => /\ HasRoom(rooms', ev'.room)
       /\ LET room == GetRoom(rooms', ev'.room)
          IN /\ Len(room.participants) = 1
             /\ room.participants[1].sock = ev'.sock
             /\ room.participants[1].isAdmin
             /\ room.creator = room.participants[1].name
             /\ room.messages = <<>>
             /\ room.playbackState.playlist = <<>>
             /\ room.playbackState.currentIndex = -1
             /\ ~room.playbackState.isPlaying
       /\ \E k \in DOMAIN sent' :
             /\ sent'[k].to = ev'.sock
             /\ sent'[k].type = "room-state"
             /\ sent'[k].data.room.id = ev'.room

C4_CreatorLeaves ==
    (ev.name = "join-room" /\ ev.branch = "created"
        /\ ev'.name = "disconnect" /\ ev'.sock = ev.sock
        /\ ev.sock \in connected /\ ev.sock \notin connected')
    => ~HasRoom(rooms', ev.room)

C4_RoomLifecycle == [][C4_Created /\ C4_CreatorLeaves]_vars

\* C5: after every completed server event, the registry contains no room
\* whose participant set is empty.
C5_NoEmptyRoom ==
    \A i \in DOMAIN rooms : Len(rooms[i].participants) > 0

\* C10: a kick-user, transfer-admin, update-settings or close-room request
\* from a participant whose slot has isAdmin = false changes nothing
\* (registry, rosters, admin flags, creators, settings and groups are as
\* before) and emits exactly one message, permission-denied to the caller.
DeniedOnly(s, text) ==
    /\ rooms' = rooms
    /\ groups' = groups
    /\ sent' = <<Msg(s, "permission-denied", [message |-> text])>>

C10_Step ==
    \A s \in RosterSockets, r \in RoomIds :
        (IsMember(rooms, r, s)
            /\ ~GetSlot(GetRoom(rooms, r).participants, s).isAdmin)
        => /\ \A a \in AdminActions, target \in UserIds, p \in AdminSettings :
                 UserAction(s, r, a, target, p)
                    => DeniedOnly(s, "Only admins can perform this action")
           /\ CloseRoom(s, r)
                 => DeniedOnly(s, "Only admins can close the room")

C10_NonAdminDenied == [][C10_Step]_vars

\* a non-admin's kick of a participant who is present has just been denied
C10_Witness ==
    /\ ev.name = "user-action" /\ ev.action = "kick-user"
    /\ ev.branch = "denied"
    /\ HasRoom(rooms, ev.room)
    /\ Len(GetRoom(rooms, ev.room).participants) = 2
    /\ AdminCount(GetRoom(rooms, ev.room).participants) = 1
    /\ Len(sent) = 1 /\ sent[1].to = ev.sock

----------------------------------------------------------------------------
(* Properties of playback control (checked under SpecPlayback) *)

PlaybackOf(rs) == GetRoom(rs, PlaybackRoom).playbackState

\* C3: in every room, serverStartTime is non-null if and only if isPlaying.
C3_AnchorIffPlaying ==
    \A i \in DOMAIN rooms :
        (rooms[i].playbackState.serverStartTime # Null)
            <=> rooms[i].playbackState.isPlaying

\* a playing room right after a next that moved to another track
C3_Witness ==
    /\ ev.name = "playback-control" /\ ev.action = "next"
    /\ ev.branch = "applied"
    /\ PlaybackOf(rooms).isPlaying
    /\ PlaybackOf(rooms).serverStartTime = now
    /\ now > StartTime

\* the position derived at time t after a pause handled at t and a play,
\* with the given payload, handled at t as well
PositionAfterPausePlay(ps, payload, t) ==
    CalculatedTime(
        ApplyControl(ApplyControl(ps, "pause", NoPayload, t), "play", payload, t),
        t)

\* C6 as claimed: for a playing room, pause then play at the same server
\* time, with or without a currentTime in the play's payload, leaves the
\* derived position where it was before the pause.
C6_NoJumpAnyPayload ==
    \A i \in DOMAIN rooms :
        rooms[i].playbackState.isPlaying
        => \A p \in {NoPayload} \cup {TimePayload(c) : c \in PayloadTimes} :
              PositionAfterPausePlay(rooms[i].playbackState, p, now)
                 = CalculatedTime(rooms[i].playbackState, now)

\* C6 as amended: the same, for a play that supplies no currentTime or
\* supplies 0.
C6_NoJumpWithoutTime ==
    \A i \in DOMAIN rooms :
        rooms[i].playbackState.isPlaying
        => \A p \in {NoPayload, TimePayload(0)} :
              PositionAfterPausePlay(rooms[i].playbackState, p, now)
                 = CalculatedTime(rooms[i].playbackState, now)

\* a play without currentTime has just been handled, right after a pause of
\* the playing room handled at the same server time, at a position past 0
C6_Witness ==
    /\ ev.name = "playback-control" /\ ev.action = "play"
    /\ ev.branch = "from-stored"
    /\ ev.after = <<"froze", "same-time">>
    /\ PlaybackOf(rooms).isPlaying
    /\ CalculatedTime(PlaybackOf(rooms), now) > 0

\* C7: a pause handled when the handler before it was a pause too (at the
\* same or a later server time) leaves currentTime as the first pause froze
\* it, with isPlaying = false and serverStartTime = null before and after.
AppliedPause(e) ==
    /\ e.name = "playback-control" /\ e.action = "pause"
    /\ e.branch \in {"froze", "applied"}

C7_Step ==
    \A s \in PlaybackSockets :
        (AppliedPause(ev) /\ PlaybackControl(s, PlaybackRoom, "pause", NoPayload)
            /\ AppliedPause(ev'))
        => /\ PlaybackOf(rooms').currentTime = PlaybackOf(rooms).currentTime
           /\ ~PlaybackOf(rooms).isPlaying /\ ~PlaybackOf(rooms').isPlaying
           /\ PlaybackOf(rooms).serverStartTime = Null
           /\ PlaybackOf(rooms').serverStartTime = Null

C7_PauseIdempotent == [][C7_Step]_vars

\* a second pause has just been handled, later than the first, which froze
\* a position past 0
C7_Witness ==
    /\ AppliedPause(ev)
    /\ ev.after = <<"froze", "later">>
    /\ PlaybackOf(rooms).currentTime > 0
    /\ ~PlaybackOf(rooms).isPlaying

\* C8: a permitted next at the last index (or on the empty playlist) and a
\* permitted previous at index <= 0 change no field of the playback state
\* and send playback-state-changed to no connection.
AtBoundary(ps, action) ==
    \/ action = "next" /\ ps.currentIndex = Len(ps.playlist) - 1
    \/ action = "previous" /\ ps.currentIndex <= 0

C8_Step ==
    \A s \in PlaybackSockets, a \in {"next", "previous"} :
        (/\ IsMember(rooms, PlaybackRoom, s)
         /\ \/ GetSlot(GetRoom(rooms, PlaybackRoom).participants, s).isAdmin
            \/ GetRoom(rooms, PlaybackRoom).settings.allowGuestControl
         /\ AtBoundary(PlaybackOf(rooms), a)
         /\ PlaybackControl(s, PlaybackRoom, a, NoPayload))
        => /\ PlaybackOf(rooms') = PlaybackOf(rooms)
           /\ \A k \in DOMAIN sent' : sent'[k].type # "playback-state-changed"

C8_BoundarySilent == [][C8_Step]_vars

\* C9: a playback-control request from a participant who is not admin is
\* rejected while allowGuestControl is false (the room is unchanged and the
\* only message is permission-denied to that connection) and applied while
\* it is true (no permission-denied; unless the handler throws, every
\* connection of the room's group gets playback-state-changed with the new
\* playback state, and play and pause set isPlaying).
ControlApplied(s, action, payload) ==
    /\ \A k \in DOMAIN sent' : sent'[k].type # "permission-denied"
    /\ ~Throws(action, payload)
       => /\ \A g \in groups[PlaybackRoom] :
                \E k \in DOMAIN sent' :
                    /\ sent'[k].to = g
                    /\ sent'[k].type = "playback-state-changed"
                    /\ sent'[k].data.playbackState = PlaybackOf(rooms')
          /\ action = "play" => PlaybackOf(rooms').isPlaying
          /\ action = "pause" => ~PlaybackOf(rooms').isPlaying
          /\ PlaybackOf(rooms').lastSyncTime = now
             \/ action \in {"next", "previous"}

C9_Step ==
    \A s \in PlaybackSockets, c \in ControlInputs :
        (/\ IsMember(rooms, PlaybackRoom, s)
         /\ ~GetSlot(GetRoom(rooms, PlaybackRoom).participants, s).isAdmin
         /\ PlaybackControl(s, PlaybackRoom, c[1], c[2]))
        => IF GetRoom(rooms, PlaybackRoom).settings.allowGuestControl
           THEN ControlApplied(s, c[1], c[2])
           ELSE /\ rooms' = rooms
                /\ sent' = <<Msg(s, "permission-denied",
                                [message |-> "Only admins can control playback"])>>

C9_GuestControlGate == [][C9_Step]_vars

\* the guest's request has just been rejected in a room that is playing, so
\* after an earlier request was applied, with allowGuestControl false
C9_Witness ==
    /\ ev.name = "playback-control" /\ ev.branch = "denied"
    /\ ev.sock = "s2"
    /\ ~GetRoom(rooms, PlaybackRoom).settings.allowGuestControl
    /\ PlaybackOf(rooms).isPlaying
    /\ Len(sent) = 1 /\ sent[1].to = "s2" /\ sent[1].type = "permission-denied"

----------------------------------------------------------------------------
(* Capacity: one room, two connections, and an admin who lowers            *)
(* maxParticipants to one or two.                                          *)

CapacityRoom == "X"
CapacitySockets == {"s1", "s2"}
MaxCapacity == 2
CapacityLimits == 1..MaxCapacity
CapacitySettings ==
    {SettingsPayload("maxParticipants" :> n) : n \in CapacityLimits}
    \cup {SettingsPayload("allowGuestControl" :> TRUE)}

NextCapacity ==
    \/ \E s \in CapacitySockets, u \in Users : JoinRoom(s, CapacityRoom, u)
    \/ \E s \in CapacitySockets : Disconnect(s)
    \/ \E s \in CapacitySockets, p \in CapacitySettings :
          UserAction(s, CapacityRoom, "update-settings", "", p)

SpecCapacity == Init /\ [][NextCapacity]_vars

\* C11: a join to a room whose participant count is >= maxParticipants
\* changes neither the registry nor the broadcast groups and emits exactly
\* one message, room-error to the joiner; and a join that raises a room's
\* participant count leaves it at most maxParticipants.
CountIn(rs, r) == IF HasRoom(rs, r) THEN Len(GetRoom(rs, r).participants) ELSE 0

C11_Step ==
    \A s \in CapacitySockets, u \in Users :
        JoinRoom(s, CapacityRoom, u)
        => /\ (/\ HasRoom(rooms, CapacityRoom)
               /\ CountIn(rooms, CapacityRoom)
                     >= GetRoom(rooms, CapacityRoom).settings.maxParticipants)
              => /\ rooms' = rooms
                 /\ groups' = groups
                 /\ sent' = <<Msg(s, "room-error", [message |-> "Room is full"])>>
           /\ CountIn(rooms', CapacityRoom) > CountIn(rooms, CapacityRoom)
              => CountIn(rooms', CapacityRoom)
                    <= GetRoom(rooms', CapacityRoom).settings.maxParticipants

C11_FullRoomRejects == [][C11_Step]_vars

\* a connection outside the room has just been rejected by a room that
\* holds as many participants as its lowered maxParticipants allows
C11_Witness ==
    /\ ev.name = "join-room" /\ ev.branch = "full"
    /\ HasRoom(rooms, CapacityRoom)
    /\ ~HasSlot(GetRoom(rooms, CapacityRoom).participants, ev.sock)
    /\ ev.sock \notin groups[CapacityRoom]
    /\ CountIn(rooms, CapacityRoom)
          = GetRoom(rooms, CapacityRoom).settings.maxParticipants
    /\ sent = <<Msg(ev.sock, "room-error", [message |-> "Room is full"])>>

----------------------------------------------------------------------------
(* The WebSocketManager server (src/hooks/use-websocket.ts): a second      *)
(* implementation of the same events over its own registry, modelled over  *)
(* the same variables.  Its join-room has no reconnection case and stores  *)
(* the user object as sent; send-message, add-song and user-action look    *)
(* only for the room; disconnect visits every room.                        *)

\* the record the manager creates for a room: syncInterval is not set
ManagerNewRoom(roomId, userName, t) ==
    LET r == NewRoom(roomId, userName, t)
    IN [id |-> r.id, creator |-> r.creator, participants |-> r.participants,
        messages |-> r.messages, playbackState |-> r.playbackState,
        settings |-> r.settings, syncInterval |-> Null]

ManagerJoinRoom(s, roomId, user) ==
    /\ s \in connected
    /\ UNCHANGED <<client, intervals>>
    /\ UNCHANGED <<connected, now>>
    /\ LET rs1 == IF HasRoom(rooms, roomId) THEN rooms
                  ELSE Append(rooms, ManagerNewRoom(roomId, user.name, now))
           room == GetRoom(rs1, roomId)
       IN
       IF IsFull(room)
       THEN /\ ev' = Event("join-room", s, roomId, "", "full")
            /\ sent' = <<Msg(s, "room-error", [message |-> "Room is full"])>>
            /\ rooms' = rs1
            /\ UNCHANGED groups
       ELSE
         LET pdata == [sock |-> s, id |-> user.id, name |-> user.name,
                       isAdmin |-> user.isAdmin]
             ps2 == SetSlot(room.participants, pdata)
             room2 == [room EXCEPT !.participants = ps2]
             g2 == groups[roomId] \cup {s}
         IN
         /\ ev' = Event("join-room", s, roomId, "",
                        IF ~HasRoom(rooms, roomId) THEN "created" ELSE "joined")
         /\ rooms' = PutRoom(rs1, room2)
         /\ groups' = [groups EXCEPT ![roomId] = g2]
         /\ sent' = Broadcast(Others(g2, s), "user-joined",
                              [user |-> user.name, participants |-> Roster(ps2)])
                    \o <<Msg(s, "room-state", RoomStateData(room2, now))>>

ManagerSendMessage(s, roomId, text, userName) ==
    /\ s \in connected
    /\ UNCHANGED <<client, intervals>>
    /\ UNCHANGED <<groups, connected, now>>
    /\ IF HasRoom(rooms, roomId)
       THEN LET room == GetRoom(rooms, roomId)
                chatMessage == [user |-> userName, message |-> text,
                                roomId |-> roomId]
            IN /\ Len(room.messages) < MaxMessages
               /\ ev' = Event("send-message", s, roomId, "", "applied")
               /\ rooms' = PutRoom(rooms,
                              [room EXCEPT !.messages = Append(@, chatMessage)])
               /\ sent' = Broadcast(groups[roomId], "new-message", chatMessage)
       ELSE /\ ev' = Event("send-message", s, roomId, "", "ignored")
            /\ sent' = <<>>
            /\ UNCHANGED rooms

ManagerAddSong(s, roomId, song) ==
    /\ s \in connected
    /\ UNCHANGED <<client, intervals>>
    /\ UNCHANGED <<groups, connected, now>>
    /\ IF HasRoom(rooms, roomId)
       THEN LET room == GetRoom(rooms, roomId)
                ps == room.playbackState
                ps1 == WithSong(ps, song)
            IN /\ Len(ps.playlist) < MaxPlaylist
               /\ ev' = Event("add-song", s, roomId, "", "applied")
               /\ rooms' = PutRoom(rooms, [room EXCEPT !.playbackState = ps1])
               /\ sent' = Broadcast(groups[roomId], "playlist-updated", ps1)
       ELSE /\ ev' = Event("add-song", s, roomId, "", "ignored")
            /\ sent' = <<>>
            /\ UNCHANGED rooms

\* user-action of the manager: without a slot the caller fails the admin
\* check (adminUser?.isAdmin); with one, the code is that of UserAction
ManagerUserAction(s, roomId, action, targetUserId, payload) ==
    IF HasRoom(rooms, roomId) /\ ~IsMember(rooms, roomId, s)
    THEN /\ s \in connected
         /\ ev' = Event("user-action", s, roomId, action, "denied")
         /\ sent' = <<Msg(s, "permission-denied",
                         [message |-> "Only admins can perform this action"])>>
         /\ UNCHANGED <<rooms, groups, connected, now, client, intervals>>
    ELSE UserAction(s, roomId, action, targetUserId, payload)

\* the rooms of rs, from index i on, after the slot keyed s is taken out of
\* each and the rooms this empties are dropped
RECURSIVE LeaveAll(_, _, _)
LeaveAll(rs, s, i) ==
    IF i > Len(rs) THEN <<>>
    ELSE LET ps1 == DeleteSlot(rs[i].participants, s)
         IN (IF HasSlot(rs[i].participants, s) /\ Len(ps1) = 0 THEN <<>>
             ELSE <<[rs[i] EXCEPT !.participants = ps1]>>)
            \o LeaveAll(rs, s, i + 1)

\* the user-left messages of one disconnect, room after room
RECURSIVE LeftMessages(_, _, _, _)
LeftMessages(rs, g, s, i) ==
    IF i > Len(rs) THEN <<>>
    ELSE (IF HasSlot(rs[i].participants, s)
          THEN Broadcast(Others(g[rs[i].id], s), "user-left",
                         [user |-> GetSlot(rs[i].participants, s).name,
                          participants |->
                              Roster(DeleteSlot(rs[i].participants, s))])
          ELSE <<>>)
         \o LeftMessages(rs, g, s, i + 1)

\* variant of Cleared: clearInterval is not called
Cleared_Kept(ivs, room) == ivs

\* the active timers after clearInterval(room.syncInterval), which the code
\* calls if the field is set
Cleared(ivs, room) ==
    IF room.syncInterval # Null
    THEN {iv \in ivs : iv.id # room.syncInterval}
    ELSE ivs

\* the active timers after the disconnect of s cleared the timer of every
\* room it emptied
RECURSIVE ClearedAll(_, _, _, _)
ClearedAll(ivs, rs, s, i) ==
    IF i > Len(rs) THEN ivs
    ELSE ClearedAll(IF HasSlot(rs[i].participants, s)
                       /\ Len(DeleteSlot(rs[i].participants, s)) = 0
                    THEN Cleared(ivs, rs[i]) ELSE ivs,
                    rs, s, i + 1)

ManagerDisconnect(s) ==
    /\ s \in connected
    /\ UNCHANGED client
    /\ intervals' = ClearedAll(intervals, rooms, s, 1)
    /\ connected' = connected \ {s}
    /\ groups' = [r \in RoomIds |-> groups[r] \ {s}]
    /\ UNCHANGED now
    /\ ev' = Event("disconnect", s, "", "",
                   IF FirstRoomWith(rooms, s) = 0 THEN "none" ELSE "left")
    /\ sent' = LeftMessages(rooms, groups, s, 1)
    /\ rooms' = LeaveAll(rooms, s, 1)

\* the period of the manager's sync timer
SyncMs == 5000

\* the id setInterval returns: one no active timer and no room carries
FreshInterval ==
    CHOOSE n \in 1..(Cardinality(intervals) + Len(rooms) + 1) :
        /\ \A iv \in intervals : iv.id # n
        /\ \A i \in DOMAIN rooms : rooms[i].syncInterval # n

\* playback-control of the manager: the permission check reads the slot of
\* a caller that may have none; play starts the room's sync timer unless
\* the record carries one, pause clears it
ManagerPlaybackControl(s, roomId, action, payload) ==
    /\ s \in connected
    /\ UNCHANGED <<client, groups, connected, now>>
    /\ IF ~HasRoom(rooms, roomId)
       THEN /\ ev' = Event("playback-control", s, roomId, action, "ignored")
            /\ sent' = <<>>
            /\ UNCHANGED <<rooms, intervals>>
       ELSE
         LET room == GetRoom(rooms, roomId)
             ps == room.playbackState
             isAdmin == /\ HasSlot(room.participants, s)
                        /\ GetSlot(room.participants, s).isAdmin
         IN
         IF ~isAdmin /\ ~room.settings.allowGuestControl
         THEN /\ ev' = Event("playback-control", s, roomId, action, "denied")
              /\ sent' = <<Msg(s, "permission-denied",
                              [message |-> "Only admins can control playback"])>>
              /\ UNCHANGED <<rooms, intervals>>
         ELSE IF Throws(action, payload)
         THEN /\ ev' = Event("playback-control", s, roomId, action, "threw")
              /\ sent' = <<>>
              /\ UNCHANGED <<rooms, intervals>>
         ELSE
           LET ps1 == ApplyControl(ps, action, payload, now)
               starts == action = "play" /\ room.syncInterval = Null
               stops == action = "pause" /\ room.syncInterval # Null
               id == FreshInterval
           IN /\ ev' = Event("playback-control", s, roomId, action,
                             ControlBranch(ps, action, payload))
              /\ sent' = Broadcast(groups[roomId], "playback-state-changed",
                                   [playbackState |-> ps1, serverTime |-> now])
              /\ rooms' = PutRoom(rooms,
                              [room EXCEPT
                                  !.playbackState = ps1,
                                  !.syncInterval = IF starts THEN id
                                                   ELSE IF stops THEN Null
                                                   ELSE @])
              /\ intervals' =
                    IF starts
                    THEN intervals \cup {[id |-> id, room |-> roomId,
                                          due |-> now + SyncMs]}
                    ELSE IF stops THEN Cleared(intervals, room)
                    ELSE intervals

\* close-room of the manager
ManagerCloseRoom(s, roomId) ==
    /\ s \in connected
    /\ UNCHANGED <<client, groups, connected, now>>
    /\ IF ~HasRoom(rooms, roomId)
       THEN /\ ev' = Event("close-room", s, roomId, "", "ignored")
            /\ sent' = <<>>
            /\ UNCHANGED <<rooms, intervals>>
       ELSE
         LET room == GetRoom(rooms, roomId)
         IN
         IF ~(/\ HasSlot(room.participants, s)
              /\ GetSlot(room.participants, s).isAdmin)
         THEN /\ ev' = Event("close-room", s, roomId, "", "denied")
              /\ sent' = <<Msg(s, "permission-denied",
                              [message |-> "Only admins can close the room"])>>
              /\ UNCHANGED <<rooms, intervals>>
         ELSE /\ ev' = Event("close-room", s, roomId, "", "applied")
              /\ sent' = Broadcast(groups[roomId], "room-closed",
                                   [message |->
                                       GetSlot(room.participants, s).name])
              /\ intervals' = Cleared(intervals, room)
              /\ rooms' = DeleteRoom(rooms, roomId)

\* the callback of a sync timer that is due: broadcastSync(roomId)
BroadcastSync(iv) ==
    /\ iv \in intervals /\ iv.due <= now
    /\ intervals' = (intervals \ {iv}) \cup {[iv EXCEPT !.due = @ + SyncMs]}
    /\ UNCHANGED <<rooms, groups, connected, now, client>>
    /\ IF ~HasRoom(rooms, iv.room)
          \/ ~GetRoom(rooms, iv.room).playbackState.isPlaying
       THEN /\ ev' = Event("broadcast-sync", NoSock, iv.room, "", "skipped")
            /\ sent' = <<>>
       ELSE LET ps == GetRoom(rooms, iv.room).playbackState
                calculatedTime ==
                    IF Truthy(ps.serverStartTime) /\ ps.playbackStartTime # Null
                    THEN ps.playbackStartTime + (now - ps.serverStartTime)
                    ELSE ps.currentTime
            IN /\ ev' = Event("broadcast-sync", NoSock, iv.room, "", "sent")
               /\ sent' = Broadcast(groups[iv.room], "sync-update",
                                    [playbackState |->
                                        [ps EXCEPT !.currentTime = calculatedTime],
                                     serverTime |-> now])

\* half a period passes on the manager's clock; a timer fires when it is
\* due
SyncHorizon == 3
SyncStep == SyncMs \div 2

SyncTick ==
    /\ now < StartTime + SyncHorizon * SyncStep
    /\ \A iv \in intervals : iv.due > now
    /\ now' = now + SyncStep
    /\ UNCHANGED <<rooms, groups, connected, sent, ev, client, intervals>>

ManagerTexts == {"hi"}

NextManager ==
    \/ \E j \in RosterJoins : ManagerJoinRoom(j[1], j[2], j[3])
    \/ \E s \in RosterSockets, t \in ManagerTexts :
          ManagerSendMessage(s, "X", t, "x")
    \/ \E s \in RosterSockets, song \in PlaybackSongs : ManagerAddSong(s, "X", song)
    \/ \E s \in RosterSockets, target \in UserIds :
          ManagerUserAction(s, "X", "kick-user", target, NoSettings)
    \/ \E s \in RosterSockets : ManagerDisconnect(s)

SpecManager == Init /\ [][NextManager]_vars

\* C12: within one room no two participant slots share the same participant
\* identifier.
C12_UniqueIds ==
    \A i \in DOMAIN rooms :
        \A j, k \in DOMAIN rooms[i].participants :
            rooms[i].participants[j].id = rooms[i].participants[k].id => j = k

\* C13: when a join replaces the slot another connection holds under the
\* same participant identifier, the new slot has the isAdmin value of the
\* slot it replaced, whatever flag the joining client sent.
C13_Step ==
    \A j \in RosterJoins :
        (/\ HasRoom(rooms, j[2])
         /\ FindSockById(GetRoom(rooms, j[2]).participants, j[3].id)
               \notin {NoSock, j[1]}
         /\ JoinRoom(j[1], j[2], j[3])
         /\ ev'.branch = "replaced")
        => LET old == GetRoom(rooms, j[2]).participants
               new == GetRoom(rooms', j[2]).participants
           IN GetSlot(new, j[1]).isAdmin
                 = GetSlot(old, FindSockById(old, j[3].id)).isAdmin

C13_ReconnectKeepsAdmin == [][C13_Step]_vars

\* C14: when B joins a room that holds only A (another connection, another
\* participant identifier), B receives exactly one message, room-state,
\* whose roster is A followed by B, and A receives exactly one message,
\* user-joined, with that same roster.
MessagesTo(msgs, s) == SelectSeq(msgs, LAMBDA x : x.to = s)

C14_Step ==
    \A j \in RosterJoins :
        (/\ HasRoom(rooms, j[2])
         /\ Len(GetRoom(rooms, j[2]).participants) = 1
         /\ GetRoom(rooms, j[2]).participants[1].sock \in connected \ {j[1]}
         /\ GetRoom(rooms, j[2]).participants[1].id # j[3].id
         /\ JoinRoom(j[1], j[2], j[3]))
        => LET a == GetRoom(rooms, j[2]).participants[1]
               roster == <<[id |-> a.id, name |-> a.name, isAdmin |-> a.isAdmin],
                           [id |-> j[3].id, name |-> j[3].name,
                            isAdmin |-> j[3].isAdmin]>>
               toB == MessagesTo(sent', j[1])
               toA == MessagesTo(sent', a.sock)
           IN /\ Len(toB) = 1
              /\ toB[1].type = "room-state"
              /\ toB[1].data.participants = roster
              /\ toB[1].data.room.id = j[2]
              /\ Len(toA) = 1
              /\ toA[1].type = "user-joined"
              /\ toA[1].data.participants = roster
              /\ toA[1].data.user = j[3].name

C14_JoinNotifications == [][C14_Step]_vars

\* B has just joined a room that held only A: two slots, one user-joined
\* (to A) and one room-state (to B)
C14_Witness ==
    /\ ev.name = "join-room" /\ ev.branch = "joined"
    /\ HasRoom(rooms, ev.room)
    /\ Len(GetRoom(rooms, ev.room).participants) = 2
    /\ GetRoom(rooms, ev.room).participants[2].sock = ev.sock
    /\ Len(sent) = 2
    /\ sent[1].type = "user-joined"
    /\ sent[1].to = GetRoom(rooms, ev.room).participants[1].sock
    /\ sent[2].type = "room-state" /\ sent[2].to = ev.sock

\* C15: after a connection disconnects it holds no participant slot in any
\* room; for each room it was in, every remaining participant's connection
\* receives user-left with the roster without it, and the room is deleted
\* if that removal emptied it.
C15_Step ==
    \A s \in RosterSockets :
        Disconnect(s)
        => /\ \A i \in DOMAIN rooms' : ~HasSlot(rooms'[i].participants, s)
           /\ \A i \in DOMAIN rooms :
                 HasSlot(rooms[i].participants, s)
                 => LET rest == DeleteSlot(rooms[i].participants, s)
                    IN /\ Len(rest) = 0 => ~HasRoom(rooms', rooms[i].id)
                       /\ \A k \in DOMAIN rest :
                             rest[k].sock \in connected'
                             => \E n \in DOMAIN sent' :
                                   /\ sent'[n].to = rest[k].sock
                                   /\ sent'[n].type = "user-left"
                                   /\ sent'[n].data.participants = Roster(rest)

C15_DisconnectLeavesAll == [][C15_Step]_vars

\* C16: a connection holds a participant slot in at most one room.
C16_OneRoomPerConnection ==
    \A s \in Sockets :
        \A i, k \in DOMAIN rooms :
            (HasSlot(rooms[i].participants, s) /\ HasSlot(rooms[k].participants, s))
                => i = k

\* C17: a permitted play at server time t sets isPlaying = true and
\* serverStartTime = t, and anchors the position at payload.currentTime
\* whenever the payload supplies one (the value 0 included), at the stored
\* position only when it supplies none.
C17_Step ==
    \A s \in PlaybackSockets,
       p \in {NoPayload} \cup {TimePayload(c) : c \in PayloadTimes} :
        (/\ IsMember(rooms, PlaybackRoom, s)
         /\ MayControl(GetSlot(GetRoom(rooms, PlaybackRoom).participants, s),
                       GetRoom(rooms, PlaybackRoom).settings)
         /\ PlaybackControl(s, PlaybackRoom, "play", p))
        => /\ PlaybackOf(rooms').isPlaying
           /\ PlaybackOf(rooms').serverStartTime = now
           /\ PlaybackOf(rooms').playbackStartTime
                 = IF p.present /\ p.currentTime # Null THEN p.currentTime
                   ELSE PlaybackOf(rooms).currentTime

C17_PlayAnchorsAtPayload == [][C17_Step]_vars

----------------------------------------------------------------------------
(* Playlist: the admin of room X and a guest who may join and add tracks,   *)
(* two different tracks, the admin's playback controls, and the clock.     *)

PlaylistControls ==
    {<<"play", NoPayload>>, <<"pause", NoPayload>>,
     <<"seek", TimePayload(5 * MsPerSec)>>,
     <<"next", NoPayload>>, <<"previous", NoPayload>>}

NextPlaylist ==
    \/ JoinRoom("s2", PlaybackRoom, PlaybackUser("s2"))
    \/ \E s \in PlaybackSockets, song \in Songs : AddSong(s, PlaybackRoom, song)
    \/ \E c \in PlaylistControls : PlaybackControl("s1", PlaybackRoom, c[1], c[2])
    \/ Tick

SpecPlaylist == InitPlayback /\ [][NextPlaylist]_vars

\* C18: a permitted next with currentIndex < playlist.length - 1 adds one to
\* currentIndex, sets the position to 0, moves serverStartTime to the call
\* time only if playing and leaves a paused state paused; previous with
\* currentIndex > 0 does the same one index down; and in every state
\* currentIndex = -1 exactly when the playlist is empty, otherwise
\* 0 <= currentIndex < playlist.length and currentSong is the playlist entry
\* at currentIndex.
C18_IndexInRange ==
    \A i \in DOMAIN rooms :
        LET ps == rooms[i].playbackState
        IN /\ (ps.currentIndex = -1) <=> (ps.playlist = <<>>)
           /\ ps.playlist # <<>>
              => /\ 0 <= ps.currentIndex
                 /\ ps.currentIndex < Len(ps.playlist)
                 /\ ps.currentSong = ps.playlist[ps.currentIndex + 1]

C18_Moved(ps, ps1, idx) ==
    /\ ps1.currentIndex = idx
    /\ ps1.currentSong = ps.playlist[idx + 1]
    /\ ps1.currentTime = 0
    /\ ps1.isPlaying = ps.isPlaying
    /\ ps1.playlist = ps.playlist
    /\ IF ps.isPlaying
       THEN ps1.serverStartTime = now /\ ps1.playbackStartTime = 0
       ELSE /\ ps1.serverStartTime = ps.serverStartTime
            /\ ps1.playbackStartTime = ps.playbackStartTime

C18_Step ==
    /\ C18_IndexInRange'
    /\ (/\ PlaybackOf(rooms).currentIndex < Len(PlaybackOf(rooms).playlist) - 1
        /\ PlaybackControl("s1", PlaybackRoom, "next", NoPayload))
       => C18_Moved(PlaybackOf(rooms), PlaybackOf(rooms'),
                    PlaybackOf(rooms).currentIndex + 1)
    /\ (/\ PlaybackOf(rooms).currentIndex > 0
        /\ PlaybackControl("s1", PlaybackRoom, "previous", NoPayload))
       => C18_Moved(PlaybackOf(rooms), PlaybackOf(rooms'),
                    PlaybackOf(rooms).currentIndex - 1)

C18_NextPrevious == [][C18_Step]_vars

\* a next has just moved a playing room from its first track to a
\* different second one, after the clock advanced
C18_Witness ==
    /\ ev.name = "playback-control" /\ ev.action = "next"
    /\ ev.branch = "applied"
    /\ PlaybackOf(rooms).currentIndex = 1
    /\ PlaybackOf(rooms).playlist[1] # PlaybackOf(rooms).playlist[2]
    /\ PlaybackOf(rooms).currentSong = PlaybackOf(rooms).playlist[2]
    /\ PlaybackOf(rooms).isPlaying
    /\ PlaybackOf(rooms).serverStartTime = now
    /\ now > StartTime

\* C19: a playback-control request that passes the permission check and
\* mutates the state (play, pause, seek, volume, next or previous away from
\* a boundary) makes every participant of the room receive exactly one
\* playback-state-changed message, which carries the playback state after
\* the mutation and the server time of the call.
C19_Step ==
    \A s \in PlaybackSockets, c \in ControlInputs :
        (/\ IsMember(rooms, PlaybackRoom, s)
         /\ MayControl(GetSlot(GetRoom(rooms, PlaybackRoom).participants, s),
                       GetRoom(rooms, PlaybackRoom).settings)
         /\ ~Throws(c[1], c[2])
         /\ ~AtBoundary(PlaybackOf(rooms), c[1])
         /\ PlaybackControl(s, PlaybackRoom, c[1], c[2]))
        => LET ps == GetRoom(rooms', PlaybackRoom).participants
               changed == SelectSeq(sent',
                              LAMBDA x : x.type = "playback-state-changed")
           IN \A k \in DOMAIN ps :
                 /\ Len(MessagesTo(changed, ps[k].sock)) = 1
                 /\ MessagesTo(changed, ps[k].sock)[1].data
                       = [playbackState |-> PlaybackOf(rooms'),
                          serverTime |-> now]

C19_MutationBroadcast == [][C19_Step]_vars

\* a seek by the guest has just been applied in a playing room of two
\* participants, after the clock advanced: two messages went out
C19_Witness ==
    /\ ev.name = "playback-control" /\ ev.action = "seek"
    /\ ev.branch = "applied" /\ ev.sock = "s2"
    /\ Len(GetRoom(rooms, PlaybackRoom).participants) = 2
    /\ PlaybackOf(rooms).isPlaying
    /\ PlaybackOf(rooms).serverStartTime = now
    /\ now > StartTime
    /\ Len(sent) = 2
    /\ sent[1].data.playbackState = PlaybackOf(rooms)
    /\ sent[2].data.serverTime = now

\* C20: a successful kick removes exactly the target's slot, sends
\* kicked-from-room to the target's connection only and user-left, with the
\* roster without the target, to every remaining participant and not to
\* the target; and the next send-message, add-song or playback-control of
\* the kicked connection for that room changes nothing and is broadcast to
\* nobody, while what other connections do in the room sends nothing to the
\* kicked connection (stated for a kick of another connection).
KickApplied(e) ==
    e.name = "user-action" /\ e.action = "kick-user" /\ e.branch = "applied"

\* the connection the last handler kicked, NoSock if it kicked none
KickedNow ==
    IF KickApplied(ev) /\ \E k \in DOMAIN sent : sent[k].type = "kicked-from-room"
    THEN sent[CHOOSE k \in DOMAIN sent : sent[k].type = "kicked-from-room"].to
    ELSE NoSock

C20_Kick ==
    (KickApplied(ev') /\ rooms' # rooms)
    => LET old == GetRoom(rooms, ev'.room).participants
           new == GetRoom(rooms', ev'.room).participants
       IN \E t \in DOMAIN old :
             /\ new = DeleteSlot(old, old[t].sock)
             /\ Len(new) = Len(old) - 1
             /\ \A k \in DOMAIN sent' :
                   sent'[k].type = "kicked-from-room" <=> sent'[k].to = old[t].sock
             /\ Len(MessagesTo(sent', old[t].sock)) = 1
             /\ \A n \in DOMAIN new :
                   new[n].sock \in connected
                   => \E k \in DOMAIN sent' :
                         /\ sent'[k].to = new[n].sock
                         /\ sent'[k].type = "user-left"
                         /\ sent'[k].data.participants = Roster(new)

C20_AfterKick ==
    (KickedNow \notin {NoSock, ev.sock} /\ ev' # ev /\ ev'.room = ev.room)
    => /\ (ev'.sock = KickedNow
            /\ ev'.name \in {"send-message", "add-song", "playback-control"})
          => /\ rooms' = rooms
             /\ \A k \in DOMAIN sent' : sent'[k].to = KickedNow
       /\ (ev'.sock # KickedNow /\ ev'.name # "disconnect")
          => MessagesTo(sent', KickedNow) = <<>>

C20_KickRemoves == [][C20_Kick /\ C20_AfterKick]_vars

----------------------------------------------------------------------------
(* Properties of user-action and close-room *)

\* C21: a successful transfer-admin from admin a to an existing participant
\* b, b another connection, ends with b.isAdmin = true, a.isAdmin = false,
\* every other slot as it was and room.creator = b's name; every message it
\* emits is admin-transferred with b's name and the roster after both flag
\* writes, and every connected participant receives exactly one.
C21_Step ==
    \A s \in RosterSockets, r \in RoomIds, target \in UserIds, p \in AdminSettings :
        (/\ IsMember(rooms, r, s)
         /\ GetSlot(GetRoom(rooms, r).participants, s).isAdmin
         /\ FindSockById(GetRoom(rooms, r).participants, target) \notin {NoSock, s}
         /\ UserAction(s, r, "transfer-admin", target, p))
        => LET old == GetRoom(rooms, r).participants
               b == FindSockById(old, target)
               new == GetRoom(rooms', r).participants
           IN /\ Len(new) = Len(old)
              /\ \A i \in DOMAIN new :
                    /\ new[i].sock = old[i].sock
                    /\ new[i].id = old[i].id /\ new[i].name = old[i].name
                    /\ new[i].isAdmin = IF new[i].sock = b THEN TRUE
                                        ELSE IF new[i].sock = s THEN FALSE
                                        ELSE old[i].isAdmin
              /\ GetRoom(rooms', r).creator = GetSlot(old, b).name
              /\ \A k \in DOMAIN sent' :
                    /\ sent'[k].type = "admin-transferred"
                    /\ sent'[k].data.newAdmin = GetSlot(old, b).name
                    /\ sent'[k].data.participants = Roster(new)
              /\ \A i \in DOMAIN new :
                    new[i].sock \in connected
                    => Len(MessagesTo(sent', new[i].sock)) = 1

C21_TransferAdmin == [][C21_Step]_vars

\* admin has just been transferred in a room of two that had one admin:
\* the caller's flag is cleared, the other slot is the admin and the creator
C21_Witness ==
    /\ ev.name = "user-action" /\ ev.action = "transfer-admin"
    /\ ev.branch = "applied"
    /\ HasRoom(rooms, ev.room)
    /\ Len(GetRoom(rooms, ev.room).participants) = 2
    /\ ~GetSlot(GetRoom(rooms, ev.room).participants, ev.sock).isAdmin
    /\ AdminCount(GetRoom(rooms, ev.room).participants) = 1
    /\ \E i \in 1..2 :
          /\ GetRoom(rooms, ev.room).participants[i].isAdmin
          /\ GetRoom(rooms, ev.room).participants[i].name
                = GetRoom(rooms, ev.room).creator
    /\ Len(sent) = 2

\* C22: a kick-user or transfer-admin request by the admin whose
\* targetUserId matches no participant of the room leaves the registry as
\* it was and is reported to the caller: the caller's connection, and no
\* other, receives a message.
C22_Step ==
    \A s \in RosterSockets, r \in RoomIds, target \in UserIds,
       a \in {"kick-user", "transfer-admin"}, p \in AdminSettings :
        (/\ IsMember(rooms, r, s)
         /\ GetSlot(GetRoom(rooms, r).participants, s).isAdmin
         /\ FindSockById(GetRoom(rooms, r).participants, target) = NoSock
         /\ UserAction(s, r, a, target, p))
        => /\ rooms' = rooms
           /\ Len(MessagesTo(sent', s)) >= 1
           /\ \A k \in DOMAIN sent' : sent'[k].to = s

C22_MissingTargetReported == [][C22_Step]_vars

\* C23: an update-settings by the admin changes the supplied fields of the
\* settings and nothing else of the room (no participant is removed, also
\* when maxParticipants drops below the participant count) and sends the
\* new settings to every connected participant; and while a room holds at
\* least maxParticipants participants, every join to it leaves the registry
\* unchanged.
C23_Step ==
    \A s \in CapacitySockets :
        /\ \A p \in CapacitySettings :
              (/\ IsMember(rooms, CapacityRoom, s)
               /\ GetSlot(GetRoom(rooms, CapacityRoom).participants, s).isAdmin
               /\ UserAction(s, CapacityRoom, "update-settings", "", p))
              => LET room == GetRoom(rooms, CapacityRoom)
                     merged == [k \in DOMAIN room.settings |->
                                   IF k \in DOMAIN p.fields THEN p.fields[k]
                                   ELSE room.settings[k]]
                 IN /\ HasRoom(rooms', CapacityRoom)
                    /\ GetRoom(rooms', CapacityRoom)
                          = [room EXCEPT !.settings = merged]
                    /\ \A k \in DOMAIN sent' :
                          /\ sent'[k].type = "room-settings-updated"
                          /\ sent'[k].data = merged
                    /\ \A i \in DOMAIN room.participants :
                          room.participants[i].sock \in connected
                          => Len(MessagesTo(sent', room.participants[i].sock)) = 1
        /\ \A u \in Users :
              (/\ HasRoom(rooms, CapacityRoom)
               /\ CountIn(rooms, CapacityRoom)
                     >= GetRoom(rooms, CapacityRoom).settings.maxParticipants
               /\ JoinRoom(s, CapacityRoom, u))
              => rooms' = rooms

C23_UpdateSettings == [][C23_Step]_vars

\* a join has just been rejected by a room that holds more participants
\* than its maxParticipants, lowered after they joined, with
\* allowGuestControl set before that
C23_Witness ==
    /\ ev.name = "join-room" /\ ev.branch = "full"
    /\ HasRoom(rooms, CapacityRoom)
    /\ CountIn(rooms, CapacityRoom)
          > GetRoom(rooms, CapacityRoom).settings.maxParticipants
    /\ GetRoom(rooms, CapacityRoom).settings.allowGuestControl

----------------------------------------------------------------------------
(* Events: one room id, two connections with one user each, and every      *)
(* handler of the server, with well-formed and malformed requests.         *)

EventsRoom == "X"
EventsSockets == {"s1", "s2"}
EventsTexts == {"hi", "yo"}
EventsJoins ==
    {<<EventsRoom, PlaybackUser(s)>> : s \in EventsSockets}
    \cup {<<EventsRoom, NamelessUser>>, <<EventsRoom, MissingUser>>,
          <<"", PlaybackUser("s1")>>}
EventsControls ==
    {<<"play", NoPayload>>, <<"seek", NoPayload>>, <<"volume", NoPayload>>}

NextEvents ==
    \/ \E s \in EventsSockets, j \in EventsJoins : JoinRoom(s, j[1], j[2])
    \/ \E s \in EventsSockets : RequestSync(s, EventsRoom)
    \/ \E s \in EventsSockets, t \in EventsTexts :
          SendMessage(s, EventsRoom, t, PlaybackUser(s).name)
    \/ \E s \in EventsSockets, song \in PlaybackSongs :
          AddSong(s, EventsRoom, song)
    \/ \E s \in EventsSockets, c \in EventsControls :
          PlaybackControl(s, EventsRoom, c[1], c[2])
    \/ \E s \in EventsSockets, target \in UserIds :
          UserAction(s, EventsRoom, "kick-user", target, NoSettings)
    \/ \E s \in EventsSockets : CloseRoom(s, EventsRoom)
    \/ \E s \in EventsSockets : Disconnect(s)

SpecEvents == Init /\ [][NextEvents]_vars

\* C24: a close-room by the admin removes the room from the registry and
\* sends room-closed, and nothing else, once to every connected participant;
\* while the id is absent from the registry, request-sync, send-message,
\* add-song, playback-control, user-action and close-room naming it change
\* nothing and emit nothing; and a valid join to the absent id creates a
\* new room whose only participant is the joiner.
Ignored == rooms' = rooms /\ groups' = groups /\ sent' = <<>>

C24_Step ==
    \A s \in EventsSockets :
        /\ (/\ IsMember(rooms, EventsRoom, s)
            /\ GetSlot(GetRoom(rooms, EventsRoom).participants, s).isAdmin
            /\ CloseRoom(s, EventsRoom))
           => LET room == GetRoom(rooms, EventsRoom)
              IN /\ ~HasRoom(rooms', EventsRoom)
                 /\ \A k \in DOMAIN sent' :
                       /\ sent'[k].type = "room-closed"
                       /\ sent'[k].data = [message |-> GetSlot(room.participants, s).name]
                 /\ \A i \in DOMAIN room.participants :
                       room.participants[i].sock \in connected
                       => Len(MessagesTo(sent', room.participants[i].sock)) = 1
        /\ ~HasRoom(rooms, EventsRoom)
           => /\ RequestSync(s, EventsRoom) => Ignored
              /\ \A t \in EventsTexts :
                    SendMessage(s, EventsRoom, t, PlaybackUser(s).name) => Ignored
              /\ \A song \in PlaybackSongs : AddSong(s, EventsRoom, song) => Ignored
              /\ \A c \in EventsControls :
                    PlaybackControl(s, EventsRoom, c[1], c[2]) => Ignored
              /\ \A target \in UserIds :
                    UserAction(s, EventsRoom, "kick-user", target, NoSettings)
                       => Ignored
              /\ CloseRoom(s, EventsRoom) => Ignored
              /\ JoinRoom(s, EventsRoom, PlaybackUser(s))
                 => /\ HasRoom(rooms', EventsRoom)
                    /\ GetRoom(rooms', EventsRoom)
                          = [NewRoom(EventsRoom, PlaybackUser(s).name, now) EXCEPT
                                !.participants =
                                    <<[sock |-> s, id |-> PlaybackUser(s).id,
                                       name |-> PlaybackUser(s).name,
                                       isAdmin |-> TRUE]>>]

C24_CloseRoom == [][C24_Step]_vars

\* a former member's chat message has just been ignored: it is in the
\* group of the closed room, whose id is absent from the registry
C24_Witness ==
    /\ ev.name = "send-message" /\ ev.branch = "ignored"
    /\ ~HasRoom(rooms, EventsRoom)
    /\ ev.sock \in groups[EventsRoom]
    /\ sent = <<>>

\* after a close of a room with a chat message and a track, the id has
\* just been joined again: the room is new
C24_WitnessRejoin ==
    /\ ev.name = "join-room" /\ ev.branch = "created"
    /\ groups[EventsRoom] = EventsSockets
    /\ HasRoom(rooms, EventsRoom)
    /\ Len(GetRoom(rooms, EventsRoom).participants) = 1

\* C25: a join-room whose roomId, user or user.name is missing, and a seek
\* or volume control without payload from a participant allowed to control,
\* each run to the end of the handler, leave the registry and the groups as
\* they were and emit exactly one message, to the sender.
Rejected(s) ==
    /\ ev'.branch # "threw"
    /\ rooms' = rooms /\ groups' = groups
    /\ Len(sent') = 1 /\ sent'[1].to = s

C25_Step ==
    \A s \in EventsSockets :
        /\ \A j \in {<<EventsRoom, NamelessUser>>, <<EventsRoom, MissingUser>>,
                     <<"", PlaybackUser("s1")>>} :
              JoinRoom(s, j[1], j[2]) => Rejected(s)
        /\ \A a \in {"seek", "volume"} :
              (/\ IsMember(rooms, EventsRoom, s)
               /\ MayControl(GetSlot(GetRoom(rooms, EventsRoom).participants, s),
                             GetRoom(rooms, EventsRoom).settings)
               /\ PlaybackControl(s, EventsRoom, a, NoPayload))
              => Rejected(s)

C25_MalformedRejected == [][C25_Step]_vars

----------------------------------------------------------------------------
(* Properties of add-song, send-message and request-sync *)

\* C26: add-song by a participant appends the track at the end of the
\* playlist, makes it the current song with currentIndex = 0 only when the
\* playlist was empty, changes no other field of the playback state (so
\* neither isPlaying nor the anchor) and nothing else of the room, and sends
\* playlist-updated with the resulting playback state, and nothing else,
\* once to every connected participant.
C26_Step ==
    \A s \in PlaybackSockets, song \in Songs :
        (IsMember(rooms, PlaybackRoom, s) /\ AddSong(s, PlaybackRoom, song))
        => LET room == GetRoom(rooms, PlaybackRoom)
               ps == room.playbackState
               ps1 == PlaybackOf(rooms')
           IN /\ ps1.playlist = ps.playlist \o <<song>>
              /\ ps1.currentIndex = IF ps.playlist = <<>> THEN 0 ELSE ps.currentIndex
              /\ ps1.currentSong = IF ps.playlist = <<>> THEN song ELSE ps.currentSong
              /\ ps1 = [ps EXCEPT !.playlist = ps1.playlist,
                                  !.currentIndex = ps1.currentIndex,
                                  !.currentSong = ps1.currentSong]
              /\ GetRoom(rooms', PlaybackRoom) = [room EXCEPT !.playbackState = ps1]
              /\ \A k \in DOMAIN sent' :
                    sent'[k].type = "playlist-updated" /\ sent'[k].data = ps1
              /\ \A i \in DOMAIN room.participants :
                    room.participants[i].sock \in connected
                    => Len(MessagesTo(sent', room.participants[i].sock)) = 1

C26_AddSong == [][C26_Step]_vars

\* the guest has just added a second, different track to a playing room
C26_Witness ==
    /\ ev.name = "add-song" /\ ev.branch = "applied" /\ ev.sock = "s2"
    /\ Len(PlaybackOf(rooms).playlist) = 2
    /\ PlaybackOf(rooms).playlist[1] # PlaybackOf(rooms).playlist[2]
    /\ PlaybackOf(rooms).currentIndex = 0
    /\ PlaybackOf(rooms).isPlaying
    /\ Len(sent) = 2

\* C27: while a room exists its chat log only grows at the end (after every
\* step the log before is the beginning of the log after); a send-message
\* from a participant appends exactly one message, changes nothing else and
\* sends that message, and nothing else, once to every connected
\* participant; and the room-state sent to a joiner carries the room's
\* whole log in order.
IsPrefix(a, b) == Len(a) <= Len(b) /\ SubSeq(b, 1, Len(a)) = a

C27_Step ==
    /\ (HasRoom(rooms, EventsRoom) /\ HasRoom(rooms', EventsRoom))
       => IsPrefix(GetRoom(rooms, EventsRoom).messages,
                   GetRoom(rooms', EventsRoom).messages)
    /\ \A s \in EventsSockets :
          /\ \A t \in EventsTexts :
                (/\ IsMember(rooms, EventsRoom, s)
                 /\ SendMessage(s, EventsRoom, t, PlaybackUser(s).name))
                => LET room == GetRoom(rooms, EventsRoom)
                       msg == [user |-> PlaybackUser(s).name, message |-> t,
                               roomId |-> EventsRoom]
                   IN /\ GetRoom(rooms', EventsRoom)
                            = [room EXCEPT !.messages = room.messages \o <<msg>>]
                      /\ \A k \in DOMAIN sent' :
                            sent'[k].type = "new-message" /\ sent'[k].data = msg
                      /\ \A i \in DOMAIN room.participants :
                            room.participants[i].sock \in connected
                            => Len(MessagesTo(sent', room.participants[i].sock)) = 1
          /\ (HasRoom(rooms, EventsRoom)
                /\ JoinRoom(s, EventsRoom, PlaybackUser(s)))
             => /\ Len(MessagesTo(sent', s)) = 1
                /\ MessagesTo(sent', s)[1].type = "room-state"
                /\ MessagesTo(sent', s)[1].data.messages
                      = GetRoom(rooms, EventsRoom).messages

C27_ChatAppendOnly == [][C27_Step]_vars

\* a connection has just joined a room whose log holds two different
\* messages, and its room-state carries both in order
C27_Witness ==
    /\ ev.name = "join-room" /\ ev.branch = "joined"
    /\ HasRoom(rooms, EventsRoom)
    /\ Len(GetRoom(rooms, EventsRoom).messages) = 2
    /\ GetRoom(rooms, EventsRoom).messages[1].message
          # GetRoom(rooms, EventsRoom).messages[2].message
    /\ \E k \in DOMAIN sent :
          /\ sent[k].to = ev.sock /\ sent[k].type = "room-state"
          /\ sent[k].data.messages = GetRoom(rooms, EventsRoom).messages

----------------------------------------------------------------------------
(* Sync: room X with its admin; play always carries currentTime 0; pause,  *)
(* seek to 5 s, add-song, request-sync from both connections, the clock.   *)

SyncControls ==
    {<<"play", TimePayload(0)>>, <<"pause", NoPayload>>,
     <<"seek", TimePayload(5 * MsPerSec)>>}

NextSync ==
    \/ \E c \in SyncControls : PlaybackControl("s1", PlaybackRoom, c[1], c[2])
    \/ \E song \in PlaybackSongs : AddSong("s1", PlaybackRoom, song)
    \/ \E s \in PlaybackSockets : RequestSync(s, PlaybackRoom)
    \/ Tick

SpecSync == InitPlayback /\ [][NextSync]_vars

\* C28: when the last handler was a play with currentTime 0, applied at
\* server time t0, a request-sync handled at server time t0 + d changes no
\* room state and emits exactly one message, sync-update to the requester,
\* whose currentTime is d and whose serverTime is t0 + d.
C28_Step ==
    \A s \in PlaybackSockets :
        (/\ ev.name = "playback-control" /\ ev.action = "play"
         /\ ev.branch \in {"from-stored", "from-payload"}
         /\ RequestSync(s, PlaybackRoom))
        => /\ rooms' = rooms
           /\ Len(sent') = 1
           /\ sent'[1].to = s /\ sent'[1].type = "sync-update"
           /\ sent'[1].data.serverTime = now
           /\ sent'[1].data.playbackState.currentTime = now - ev.t

C28_SyncAfterPlay == [][C28_Step]_vars

----------------------------------------------------------------------------
(* Client: room X, where admin s1 started the only track at StartTime.     *)
(* The page of connection s2 mounts the hook and the player; the server    *)
(* handles its join-room and its periodic request-sync; the client         *)
(* receives the answers, its player loads and reports state changes, its   *)
(* timers fire, time passes.                                               *)

PlayingRoom ==
    [CreatedRoom EXCEPT
        !.playbackState = Play(WithSong(@, "T1"), NoPayload, StartTime)]

InitClient ==
    /\ rooms = <<PlayingRoom>>
    /\ groups = [r \in RoomIds |-> IF r = PlaybackRoom THEN {"s1"} ELSE {}]
    /\ connected = PlaybackSockets
    /\ now = StartTime
    /\ sent = Broadcast({"s1"}, "playback-state-changed",
                        [playbackState |-> PlayingRoom.playbackState,
                         serverTime |-> StartTime])
    /\ ev = [NoEvent EXCEPT !.name = "playback-control", !.sock = "s1",
                            !.room = PlaybackRoom, !.action = "play",
                            !.branch = "from-stored", !.t = StartTime]
    /\ client = NoClient
    /\ intervals = {}

\* how long the player may take to call back and a message may take to
\* arrive, in seconds
MaxEventDelay == 2
MaxNetDelay == 1

\* the schedule: the page mounts and joins at once, the server answers at
\* once, its messages arrive within MaxNetDelay, the player calls back
\* within MaxEventDelay
OnTime ==
    /\ client.mounted
    /\ IsMember(rooms, PlaybackRoom, ClientSock)
    /\ \/ client.seen = ev
       \/ \A k \in DOMAIN sent : sent[k].to # ClientSock
       \/ now < ev.t + MaxNetDelay * TickMs
    /\ client.asked = now => ev.name = "request-sync" /\ ev.t = now
    /\ client.pending # <<>>
          => now < client.pendingSince + MaxEventDelay * TickMs

NextClient ==
    \/ \E k \in ClockSkews : Mount(k)
    \/ /\ client.mounted /\ ~IsMember(rooms, PlaybackRoom, ClientSock)
       /\ JoinRoom(ClientSock, PlaybackRoom, PlaybackUser(ClientSock))
    \/ /\ client.asked = now
       /\ ~(ev.name = "request-sync" /\ ev.t = now)
       /\ RequestSync(ClientSock, PlaybackRoom)
    \/ \E d \in Divergences : Receive(d)
    \/ PlayerReady
    \/ \E st \in PlayerStates : PlayerStateChange(st)
    \/ \E tm \in client.timers, d \in Divergences : Fire(tm, d)
    \/ OnTime /\ Elapse

SpecClient == InitClient /\ [][NextClient]_vars

\* C29: every value getSyncedCurrentTime has returned lies between 0 and the
\* duration of the current track.
C29_SyncedWithinTrack ==
    client.synced # Null
    => /\ 0 <= client.synced
       /\ client.synced <= Duration(client.playbackState.currentSong)

\* the controller is ready to correct: the room is playing, no seek is in
\* flight, sync is not suspended, no correction counts as consecutive, the
\* polling callback saw the player PLAYING, and the last correction is more
\* than the minimum interval ago
Armed ==
    /\ client.player /\ ~client.isSeeking
    /\ client.playbackState.isPlaying /\ ~client.syncPaused
    /\ client.consecutiveSyncCorrections < 1
    /\ client.capturedPlayerState = "PLAYING"
    /\ ClientNow(client) - client.lastSyncCorrection > MinCorrectionMs

\* C30: a polling tick that finds the player 6 s behind the synced position
\* while the controller is ready to correct issues exactly one seek, to the
\* synced position, and suspends sync; for CooldownMs after a seek issued by
\* a polling tick no step issues a seek, whatever the player reports.
C30_Step ==
    /\ \A tm \in client.timers :
          (tm.kind = "poll" /\ Armed /\ Fire(tm, 6000))
          => /\ client'.seeks = client.seeks + 1
             /\ client'.corrected = now
             /\ client'.synced = SyncedNow(client)
             /\ client'.syncPaused
    /\ (client.corrected # Null /\ now < client.corrected + CooldownMs)
       => client'.seeks = client.seeks

C30_OneCorrection == [][C30_Step]_vars

\* more than the minimum interval after the only correction and within its
\* cooldown, a polling tick found the player 6 s behind again and sync
\* suspended
C30_Witness ==
    /\ client.corrected # Null
    /\ client.seeks = 1
    /\ now > client.corrected + MinCorrectionMs
    /\ now < client.corrected + CooldownMs
    /\ client.syncPaused /\ client.syncStatus = "syncing"
    /\ client.behind = 6000

----------------------------------------------------------------------------
(* Manual seek: the room of the client specification, with guests allowed  *)
(* to control playback; the user of the page moves the slider once, to     *)
(* 30 s, and the server handles the seek the page emits.                   *)

SeekTargets == {30000}
ManualHorizon == 30

GuestRoom == [PlayingRoom EXCEPT !.settings.allowGuestControl = TRUE]

InitManual ==
    /\ rooms = <<GuestRoom>>
    /\ groups = [r \in RoomIds |-> IF r = PlaybackRoom THEN {"s1"} ELSE {}]
    /\ connected = PlaybackSockets
    /\ now = StartTime
    /\ sent = Broadcast({"s1"}, "room-settings-updated", GuestRoom.settings)
    /\ ev = [NoEvent EXCEPT !.name = "user-action", !.sock = "s1",
                            !.room = PlaybackRoom,
                            !.action = "update-settings",
                            !.branch = "applied", !.t = StartTime]
    /\ client = NoClient
    /\ intervals = {}

\* the server handles the request at the head of the client's outbox
ServeClient ==
    /\ client.outbox # <<>>
    /\ PlaybackControl(ClientSock, PlaybackRoom, Head(client.outbox).action,
                       Head(client.outbox).payload)

NextManual ==
    \/ Mount(0)
    \/ /\ client.mounted /\ ~IsMember(rooms, PlaybackRoom, ClientSock)
       /\ JoinRoom(ClientSock, PlaybackRoom, PlaybackUser(ClientSock))
    \/ /\ client.asked = now
       /\ ~(ev.name = "request-sync" /\ ev.t = now)
       /\ RequestSync(ClientSock, PlaybackRoom)
    \/ ServeClient
    \/ \E d \in Divergences : Receive(d)
    \/ PlayerReady
    \/ \E st \in PlayerStates : PlayerStateChange(st)
    \/ \E v \in SeekTargets : client.manualAt = Null /\ HandleSeek(v)
    \/ \E tm \in client.timers, d \in Divergences : Fire(tm, d)
    \/ /\ OnTime /\ client.outbox = <<>>
       /\ now < StartTime + ManualHorizon * TickMs
       /\ Elapse

SpecManual == InitManual /\ [][NextManual]_vars

\* how far the position the player reports is from the synced position
Divergence(c, d) == Abs(SyncedNow(c) - Reported(c, d))

\* a settle delay of a corrective or manual seek is pending
SettlePending ==
    \E tm \in client.timers :
        tm.kind \in {"settle", "play-settle", "manual-settle"}

\* C31: a step in which the drift controller seeks starts with the player
\* reporting PLAYING, no seek or buffering in flight and sync not suspended,
\* the room is playing, and the reported position is more than 5 s from the
\* synced one; no step seeks while the settle delay of an earlier corrective
\* or manual seek is pending.
C31_Step ==
    /\ \A d \in Divergences :
          (/\ Receive(d) \/ \E tm \in client.timers : Fire(tm, d)
           /\ client'.seeks > client.seeks)
          => /\ client'.playbackState.isPlaying
             /\ client.playerState = "PLAYING"
             /\ ~client.isSeeking
             /\ ~client.syncPaused
             /\ Divergence(client', d) > HardSeekMs
    /\ SettlePending => client'.seeks = client.seeks

C31_SeekOnlyWhenDue == [][C31_Step]_vars

\* C33: in the state right after handleSeek returns, the count of consecutive
\* corrections is 0, sync is not suspended and the time of the last correction
\* is the time of the manual seek.
C33_Step ==
    \A v \in SeekTargets :
        HandleSeek(v) =>
            /\ client'.consecutiveSyncCorrections = 0
            /\ ~client'.syncPaused
            /\ client'.lastSyncCorrection = ClientNow(client)

C33_ManualSeekResets == [][C33_Step]_vars

\* the step brings the count of consecutive corrections to the cap
CapReached ==
    /\ client.consecutiveSyncCorrections < 1
    /\ client'.consecutiveSyncCorrections >= 1

\* C32: a step that brings the count of consecutive corrections to the cap
\* leaves sync suspended; no step seeks while sync is suspended, nor within
\* CooldownMs of the seek that reached the cap.
C32_Step ==
    /\ CapReached => client'.syncPaused
    /\ client.syncPaused => client'.seeks = client.seeks
    /\ (client.capAt # Null /\ now < client.capAt + CooldownMs)
       => client'.seeks = client.seeks

C32_CapSuspends == [][C32_Step]_vars

----------------------------------------------------------------------------
(* Track change: room X with two tracks, the first playing, guests allowed *)
(* to control playback.  The page of s2 joins; the player may fail to load *)
(* a track; admin s1 skips to the second track once.                       *)

TwoTrackRoom ==
    [GuestRoom EXCEPT
        !.playbackState = Play(WithSong(WithSong(CreatedRoom.playbackState,
                                                 "T1"), "T2"),
                               NoPayload, StartTime)]

TracksHorizon == 12

InitTracks ==
    /\ rooms = <<TwoTrackRoom>>
    /\ groups = [r \in RoomIds |-> IF r = PlaybackRoom THEN {"s1"} ELSE {}]
    /\ connected = PlaybackSockets
    /\ now = StartTime
    /\ sent = Broadcast({"s1"}, "room-settings-updated", TwoTrackRoom.settings)
    /\ ev = [NoEvent EXCEPT !.name = "user-action", !.sock = "s1",
                            !.room = PlaybackRoom,
                            !.action = "update-settings",
                            !.branch = "applied", !.t = StartTime]
    /\ client = NoClient
    /\ intervals = {}

\* the client has handled what the last handler sent to it
Delivered ==
    \/ client.seen = ev
    \/ \A k \in DOMAIN sent : sent[k].to # ClientSock

\* admin s1 skips the first track
AdminSkips ==
    /\ IsMember(rooms, PlaybackRoom, ClientSock) /\ Delivered
    /\ GetRoom(rooms, PlaybackRoom).playbackState.currentIndex = 0
    /\ PlaybackControl("s1", PlaybackRoom, "next", NoPayload)

NextTracks ==
    \/ Mount(0)
    \/ /\ client.mounted /\ ~IsMember(rooms, PlaybackRoom, ClientSock)
       /\ JoinRoom(ClientSock, PlaybackRoom, PlaybackUser(ClientSock))
    \/ /\ client.asked = now /\ Delivered
       /\ ~(ev.name = "request-sync" /\ ev.t = now)
       /\ RequestSync(ClientSock, PlaybackRoom)
    \/ Delivered /\ ServeClient
    \/ AdminSkips
    \/ \E d \in Divergences : Receive(d)
    \/ PlayerReady
    \/ PlayerError
    \/ \E st \in PlayerStates : PlayerStateChange(st)
    \/ \E tm \in client.timers, d \in Divergences : Fire(tm, d)
    \/ /\ OnTime /\ client.outbox = <<>>
       /\ now < StartTime + TracksHorizon * TickMs
       /\ Elapse

SpecTracks == InitTracks /\ [][NextTracks]_vars

\* the correction bookkeeping of the player component
Bookkeeping(c) ==
    <<c.lastSyncCorrection, c.consecutiveSyncCorrections, c.isSeeking,
      c.syncPaused>>

\* the timers the player component starts
PlayerTimers ==
    {"cooldown", "settle", "play-settle", "manual-settle", "ready-settle",
     "stabilise", "buffer", "error-skip", "poll-start", "poll"}

\* C34: a timer started for an earlier player that fires after the player
\* was created anew changes none of the correction bookkeeping and emits no
\* playback control.
C34_Step ==
    \A tm \in client.timers, d \in Divergences :
        (/\ tm.kind \in PlayerTimers /\ tm.gen # client.gen
         /\ Fire(tm, d))
        => /\ Bookkeeping(client') = Bookkeeping(client)
           /\ client'.outbox = client.outbox

C34_NoStaleTimer == [][C34_Step]_vars

----------------------------------------------------------------------------
(* Errors: room X created by admin s1, who changes the capacity and the    *)
(* guest control, kicks and closes; the page of s2 joins and asks for the  *)
(* next track.                                                              *)

ErrorSettings ==
    {SettingsPayload("maxParticipants" :> n) : n \in CapacityLimits}
    \cup {SettingsPayload("allowGuestControl" :> TRUE)}

NextErrors ==
    \/ ~client.away /\ Mount(0)
    \/ /\ client.mounted /\ ~IsMember(rooms, PlaybackRoom, ClientSock)
       /\ Delivered
       /\ JoinRoom(ClientSock, PlaybackRoom, PlaybackUser(ClientSock))
    \/ /\ client.mounted /\ IsMember(rooms, PlaybackRoom, ClientSock)
       /\ Delivered
       /\ PlaybackControl(ClientSock, PlaybackRoom, "next", NoPayload)
    \/ /\ Delivered
       /\ \E p \in ErrorSettings :
             UserAction("s1", PlaybackRoom, "update-settings", "", p)
    \/ Delivered /\ UserAction("s1", PlaybackRoom, "kick-user", "u2", NoSettings)
    \/ Delivered /\ CloseRoom("s1", PlaybackRoom)
    \/ \E d \in Divergences : Receive(d)

SpecErrors == InitPlayback /\ [][NextErrors]_vars

\* the message of the last handler that is addressed to the client
Incoming(type) ==
    \E k \in DOMAIN sent : sent[k].to = ClientSock /\ sent[k].type = type

\* C35: the client that receives kicked-from-room or room-closed leaves the
\* room page; the client that receives permission-denied or the rejection
\* of its join to a full room stays on the page it was on.
C35_Step ==
    \A d \in Divergences :
        Receive(d) =>
            /\ Incoming("kicked-from-room") \/ Incoming("room-closed")
                  => client'.away
            /\ Incoming("permission-denied")
                  \/ (Incoming("room-error") /\ ev.branch = "full")
                  => client'.mounted /\ ~client'.away

C35_ErrorsHandled == [][C35_Step]_vars

----------------------------------------------------------------------------
(* Two rooms: connections s1 and s2 use room X, where they join, chat,    *)
(* add a track, control playback, administer and close; s1 also joins,    *)
(* chats in and closes room Y.                                             *)

RoomsSockets == {"s1", "s2"}
RoomsUses == (RoomsSockets \X {"X"}) \cup {<<"s1", "Y">>}
RoomsControls == {<<"play", NoPayload>>}
RoomsMaxChat == 1
RoomsAdminInputs ==
    {<<"kick-user", id, NoSettings>> : id \in UserIds}
    \cup {<<"update-settings", "",
            SettingsPayload("allowGuestControl" :> TRUE)>>}

NextRooms ==
    \/ \E u \in RoomsUses : JoinRoom(u[1], u[2], PlaybackUser(u[1]))
    \/ \E u \in RoomsUses :
          /\ HasRoom(rooms, u[2])
                => Len(GetRoom(rooms, u[2]).messages) < RoomsMaxChat
          /\ SendMessage(u[1], u[2], "hi", PlaybackUser(u[1]).name)
    \/ \E s \in RoomsSockets :
          /\ HasRoom(rooms, "X")
                => GetRoom(rooms, "X").playbackState.playlist = <<>>
          /\ AddSong(s, "X", "T1")
    \/ \E s \in RoomsSockets, c \in RoomsControls :
          PlaybackControl(s, "X", c[1], c[2])
    \/ \E s \in RoomsSockets, a \in RoomsAdminInputs :
          UserAction(s, "X", a[1], a[2], a[3])
    \/ \E u \in RoomsUses : CloseRoom(u[1], u[2])

SpecRooms == Init /\ [][NextRooms]_vars

\* connection s handles one of the events of room r
HandledFor(s, r) ==
    \/ JoinRoom(s, r, PlaybackUser(s))
    \/ SendMessage(s, r, "hi", PlaybackUser(s).name)
    \/ AddSong(s, r, "T1")
    \/ \E c \in RoomsControls : PlaybackControl(s, r, c[1], c[2])
    \/ \E a \in RoomsAdminInputs : UserAction(s, r, a[1], a[2], a[3])
    \/ CloseRoom(s, r)

\* the record of room y is what it was
RoomKept(y) ==
    /\ HasRoom(rooms', y) = HasRoom(rooms, y)
    /\ HasRoom(rooms, y) => GetRoom(rooms', y) = GetRoom(rooms, y)

\* connection t holds a slot in room y and none in room r, before and after
MemberOnlyOf(t, y, r) ==
    /\ IsMember(rooms, y, t) /\ IsMember(rooms', y, t)
    /\ ~IsMember(rooms, r, t) /\ ~IsMember(rooms', r, t)

\* C36: an event handled for one room leaves the record of every other
\* room as it was and sends nothing to a connection, other than the
\* requester, that holds a slot in the other room only.
C36_Step ==
    \A s \in RoomsSockets, r \in RoomIds :
        HandledFor(s, r)
        => \A y \in RoomIds \ {r} :
              /\ RoomKept(y)
              /\ \A k \in DOMAIN sent' :
                    sent'[k].to # s => ~MemberOnlyOf(sent'[k].to, y, r)

C36_RoomsIsolated == [][C36_Step]_vars

\* the events a room broadcasts to its members
RoomBroadcasts ==
    {"user-joined", "user-left", "new-message", "playlist-updated",
     "playback-state-changed", "admin-transferred", "room-settings-updated"}

\* C37: every connection the last handler sent one of a room's broadcasts
\* to holds a participant slot in that room.
C37_BroadcastsToMembers ==
    \A k \in DOMAIN sent :
        sent[k].type \in RoomBroadcasts
        => IsMember(rooms, ev.room, sent[k].to)

----------------------------------------------------------------------------
(* End of a track: room X has three tracks and plays the first, 5 s before *)
(* its end; admin s1 and guest s2, who may control playback, both have the *)
(* page open.  The player of each page reports ENDED when the track is     *)
(* over, and each page asks for the next track.                            *)

EndsInMs == 5000
EndedHorizon == 12

ThreeTrackRoom ==
    [GuestRoom EXCEPT
        !.playbackState =
            Play(WithSong(WithSong(WithSong(CreatedRoom.playbackState, "T1"),
                                   "T2"), "T1"),
                 TimePayload(TrackMs - EndsInMs), StartTime)]

InitEnded ==
    /\ rooms = <<ThreeTrackRoom>>
    /\ groups = [r \in RoomIds |-> IF r = PlaybackRoom THEN {"s1"} ELSE {}]
    /\ connected = PlaybackSockets
    /\ now = StartTime
    /\ sent = Broadcast({"s1"}, "playback-state-changed",
                        [playbackState |-> ThreeTrackRoom.playbackState,
                         serverTime |-> StartTime])
    /\ ev = [NoEvent EXCEPT !.name = "playback-control", !.sock = "s1",
                            !.room = PlaybackRoom, !.action = "play",
                            !.branch = "from-payload", !.t = StartTime]
    /\ client = NoClient
    /\ intervals = {}

\* the first track is over
TrackOver == now >= StartTime + EndsInMs

\* the player of the admin's page reports ENDED for the first track and
\* the page's request reaches the server
AdminEnded ==
    /\ TrackOver
    /\ GetRoom(rooms, PlaybackRoom).playbackState.currentIndex = 0
    /\ PlaybackControl("s1", PlaybackRoom, "next", NoPayload)

NextEnded ==
    \/ Mount(0)
    \/ /\ client.mounted /\ ~IsMember(rooms, PlaybackRoom, ClientSock)
       /\ JoinRoom(ClientSock, PlaybackRoom, PlaybackUser(ClientSock))
    \/ /\ client.asked = now
       /\ ~(ev.name = "request-sync" /\ ev.t = now)
       /\ RequestSync(ClientSock, PlaybackRoom)
    \/ ServeClient
    \/ AdminEnded
    \/ \E d \in Divergences : Receive(d)
    \/ PlayerReady
    \/ \E st \in PlayerStates : PlayerStateChange(st)
    \/ /\ TrackOver /\ client.endedIndex = Null
       /\ client.playbackState.currentIndex = 0
       /\ PlayerEnded
    \/ \E tm \in client.timers, d \in Divergences : Fire(tm, d)
    \/ /\ OnTime /\ client.outbox = <<>>
       /\ now < StartTime + EndedHorizon * TickMs
       /\ Elapse

SpecEnded == InitEnded /\ [][NextEnded]_vars

\* C38: the requests the pages send when their players report the end of a
\* track take the room to the track after the ended one, never further.
C38_Step ==
    (/\ ServeClient
     /\ Head(client.outbox).action = "next"
     /\ client.endedIndex # Null)
    => GetRoom(rooms', PlaybackRoom).playbackState.currentIndex
          <= client.endedIndex + 1

C38_EndedAdvancesOnce == [][C38_Step]_vars

\* C39: a play request without payload handled while the room is playing
\* leaves the derived position where it was.
C39_Step ==
    \A s \in PlaybackSockets :
        (/\ HasRoom(rooms, PlaybackRoom)
         /\ PlaybackOf(rooms).isPlaying
         /\ PlaybackControl(s, PlaybackRoom, "play", NoPayload))
        => CalculatedTime(PlaybackOf(rooms'), now)
              = CalculatedTime(PlaybackOf(rooms), now)

C39_PlayWhilePlaying == [][C39_Step]_vars

----------------------------------------------------------------------------
(* Sync timers of the WebSocketManager: connections s1 and s2 use room X,  *)
(* join, control playback, add a song, kick, change the settings, close    *)
(* and disconnect; the timers fire.                                        *)

TimerSockets == {"s1", "s2"}
\* the user object a connection sends: s1 says it is the admin
TimerUser(s) == [PlaybackUser(s) EXCEPT !.isAdmin = (s = "s1")]
TimerControls == {<<"play", NoPayload>>, <<"pause", NoPayload>>,
                  <<"next", NoPayload>>, <<"seek", NoPayload>>}
TimerMaxSongs == 1

NextTimers ==
    \/ \E s \in TimerSockets : ManagerJoinRoom(s, PlaybackRoom, TimerUser(s))
    \/ \E s \in TimerSockets, c \in TimerControls :
          ManagerPlaybackControl(s, PlaybackRoom, c[1], c[2])
    \/ \E s \in TimerSockets :
          /\ HasRoom(rooms, PlaybackRoom)
             => Len(GetRoom(rooms, PlaybackRoom).playbackState.playlist)
                    < TimerMaxSongs
          /\ ManagerAddSong(s, PlaybackRoom, "T1")
    \/ \E s \in TimerSockets, target \in UserIds :
          ManagerUserAction(s, PlaybackRoom, "kick-user", target, NoSettings)
    \/ \E s \in TimerSockets :
          ManagerUserAction(s, PlaybackRoom, "update-settings", "",
                            SettingsPayload("allowGuestControl" :> TRUE))
    \/ \E s \in TimerSockets : ManagerCloseRoom(s, PlaybackRoom)
    \/ \E s \in TimerSockets : ManagerDisconnect(s)
    \/ \E iv \in intervals : BroadcastSync(iv)
    \/ SyncTick

SpecTimers == Init /\ [][NextTimers]_vars

\* the active sync timers whose callback is for room r
TimersOf(r) == {iv \in intervals : iv.room = r}

\* C40: a room id has at most one active sync timer; it has one exactly
\* when the registry holds a room of that id that is playing; and a
\* sync-update was broadcast only for a room that is in the registry and
\* playing.
C40_SyncTimers ==
    /\ \A r \in RoomIds :
          /\ Cardinality(TimersOf(r)) <= 1
          /\ (TimersOf(r) # {})
                <=> (HasRoom(rooms, r)
                     /\ GetRoom(rooms, r).playbackState.isPlaying)
    /\ (ev.name = "broadcast-sync" /\ ev.branch = "sent")
       => /\ HasRoom(rooms, ev.room)
          /\ GetRoom(rooms, ev.room).playbackState.isPlaying

\* the timer of the playing room has just broadcast sync-update to both
\* members
C40_Witness ==
    /\ ev.name = "broadcast-sync" /\ ev.branch = "sent"
    /\ Len(sent) = 2 /\ sent[1].type = "sync-update"
    /\ Cardinality(TimersOf(PlaybackRoom)) = 1
    /\ \E iv \in intervals : iv.id = GetRoom(rooms, PlaybackRoom).syncInterval

====
